---- MODULE Spec2Model ----
(***************************************************************************)
(* Webview orchestration engine of the AI hub desktop shell                *)
(* (src/tauri-app/src-tauri/src/lib.rs).                                   *)
(*                                                                         *)
(* Shared state is the set of process-wide statics of lib.rs.  Commands    *)
(* declared `async fn` run as tasks of the async runtime (Workers);        *)
(* commands declared `fn` and the window-event handler run on the event    *)
(* loop (MainThread).  One action is one critical section, one atomic      *)
(* operation or one host call of the code.                                 *)
(*                                                                         *)
(* Lengths are in thousandths of a logical pixel and ratios in             *)
(* thousandths, so that width * ratio is exact.                            *)
(***************************************************************************)
EXTENDS Integers, Sequences, FiniteSets, TLC

(***************************************************************************)
(* Bounds of the model                                                     *)
(***************************************************************************)
\* number of auxiliary tab ids create_tab may mint
MaxTabs == 2
\* number of extraction requests summarize_active_tab may issue
MaxRequests == 2
\* number of commands started in the specifications that count them
MaxCalls == 3

(***************************************************************************)
(* Values                                                                  *)
(***************************************************************************)
\* Option<T>
None == << >>
Some(x) == << x >>
IsSome(o) == Len(o) = 1
Unwrap(o) == o[1]

Px(n) == n * 1000

Max(a, b) == IF a >= b THEN a ELSE b
Min(a, b) == IF a <= b THEN a ELSE b

TOP_BAR_HEIGHT == Px(48)
MIN_SIZE == Px(100)
RATIO_MIN == 200
RATIO_MAX == 800
RATIO_DEFAULT == 500

\* f64::clamp(0.2, 0.8), ratio in thousandths
ClampRatio(r) == Max(RATIO_MIN, Min(RATIO_MAX, r))

\* site ids of the registry: "a" and "b" are built in, "c" is a custom site
BuiltinSites == <<"a", "b">>
CustomSite == "c"
SiteIds == {"a", "b", "c"}
\* ids minted by create_tab, in minting order (the uuid part is fresh)
AuxNames == <<"t1", "t2", "t3", "t4">>
AuxIds == {AuxNames[i] : i \in 1..Len(AuxNames)}
\* a tab id that names nothing
GhostTab == "zz"
Urls == {"u1", "u2", "bad"}
UrlParses(u) == u # "bad"

Workers == {"w1", "w2"}
MainThread == "main"
Page == "page"
Procs == Workers \cup {MainThread, Page}

\* label of the webview that invokes a command
Invokers == {"main", "ai_a"}

WindowSizes == { [w |-> Px(1000), h |-> Px(800)], [w |-> Px(150), h |-> Px(120)] }
SidebarWidths == { Px(64), Px(180) }
RatioInputs == { None, Some(300), Some(900), Some(0 - 500) }
Texts == {"", "T1"}

(***************************************************************************)
(* Pure functions                                                          *)
(***************************************************************************)
SeqToSet(s) == {s[i] : i \in 1..Len(s)}

RECURSIVE SeqFilterOut(_, _)
\* Vec::retain(|x| x != v)
SeqFilterOut(s, v) ==
    IF s = << >> THEN << >>
    ELSE IF Head(s) = v THEN SeqFilterOut(Tail(s), v)
         ELSE << Head(s) >> \o SeqFilterOut(Tail(s), v)

SiteIdsOf(cfg) == {cfg.sites[i].id : i \in 1..Len(cfg.sites)}

\* get_site_by_id: the first site of the registry with this id
SiteIndex(cfg, site_id) ==
    IF site_id \in SiteIdsOf(cfg)
    THEN Some(CHOOSE i \in 1..Len(cfg.sites) :
                 /\ cfg.sites[i].id = site_id
                 /\ \A j \in 1..(i - 1) : cfg.sites[j].id # site_id)
    ELSE None

\* variant: the auxiliary map is looked up before the registry
MapBeforeRegistry(cfg, map, tab_id) ==
    IF tab_id \in DOMAIN map THEN Some(map[tab_id])
    ELSE IF tab_id \in SiteIdsOf(cfg) THEN Some(tab_id)
    ELSE None

\* get_tab_site_id: Ok(site) as Some(site), Err("Tab 不存在") as None
get_tab_site_id(cfg, map, tab_id) ==
    IF tab_id \in SiteIdsOf(cfg) THEN Some(tab_id)
    ELSE IF tab_id \in DOMAIN map THEN Some(map[tab_id])
    ELSE None

\* variant: the content size has no floor
BoundsWithoutFloor(win, sidebar_width) ==
    [x |-> sidebar_width,
     y |-> TOP_BAR_HEIGHT,
     w |-> win.w - sidebar_width,
     h |-> win.h - TOP_BAR_HEIGHT]

\* calculate_webview_bounds
calculate_webview_bounds(win, sidebar_width) ==
    [x |-> sidebar_width,
     y |-> TOP_BAR_HEIGHT,
     w |-> Max(win.w - sidebar_width, MIN_SIZE),
     h |-> Max(win.h - TOP_BAR_HEIGHT, MIN_SIZE)]

\* split panes of resize_webviews_inner
LeftWidth(content, ratio) == Max((content.w * ClampRatio(ratio)) \div 1000, MIN_SIZE)
RightWidth(content, ratio) == Max(content.w - LeftWidth(content, ratio), MIN_SIZE)
LeftPane(content, ratio) ==
    [x |-> content.x, y |-> content.y, w |-> LeftWidth(content, ratio), h |-> content.h]
RightPane(content, ratio) ==
    [x |-> content.x + LeftWidth(content, ratio), y |-> content.y,
     w |-> RightWidth(content, ratio), h |-> content.h]

EmptyMap == [t \in {} |-> 0]

\* the `visible` map resize_webviews_inner builds from its snapshot
VisibleMap(layout, active_tab_id, current_site_id, content) ==
    IF layout.mode = "Single"
    THEN LET tab_id == IF active_tab_id # "" THEN active_tab_id ELSE current_site_id
         IN  IF tab_id # "" THEN (tab_id :> content) ELSE EmptyMap
    ELSE IF IsSome(layout.left_tab_id) /\ IsSome(layout.right_tab_id)
         THEN (Unwrap(layout.right_tab_id) :> RightPane(content, layout.ratio))
              @@ (Unwrap(layout.left_tab_id) :> LeftPane(content, layout.ratio))
         ELSE IF current_site_id # "" THEN (current_site_id :> content) ELSE EmptyMap

DefaultLayout ==
    [mode |-> "Single", ratio |-> RATIO_DEFAULT, left_tab_id |-> None, right_tab_id |-> None]

ZeroBounds == [x |-> 0, y |-> 0, w |-> 0, h |-> 0]

(***************************************************************************)
(* State                                                                   *)
(***************************************************************************)
VARIABLES
    APP_CONFIG,                 \* sites, site_order, pinned/recent ids, sidebar_width
    CURRENT_VIEW,               \* site id shown, "" when none
    CREATED_VIEWS,              \* set of tab ids with a WebviewRecord
    TAB_SITE_MAP,               \* auxiliary tab id -> site id
    ACTIVE_TAB_ID,              \* "" when none
    LAYOUT_STATE,               \* mode, ratio, left_tab_id, right_tab_id
    WEBVIEW_CREATE_IN_PROGRESS, \* reentrancy counter
    SUMMARY_IN_PROGRESS,        \* single-flight flag
    PENDING_EXTRACTS,           \* request id -> token (the sender is `channel`)
    channel,                    \* oneshot channel of each issued request
    webviews,                   \* host: tab id -> geometry and visibility of "ai_" + tab id
    window,                     \* host: logical inner size of the main window
    uuids,                      \* number of tab ids and of request ids minted so far
    contexts,                   \* project store: summary persisted per project
    task,                       \* control state and locals of every task
    last_done,                  \* history: the task whose command returned last
    calls                       \* history: the number of commands started so far

vars == << APP_CONFIG, CURRENT_VIEW, CREATED_VIEWS, TAB_SITE_MAP, ACTIVE_TAB_ID,
           LAYOUT_STATE, WEBVIEW_CREATE_IN_PROGRESS, SUMMARY_IN_PROGRESS,
           PENDING_EXTRACTS, channel, webviews, window, uuids, contexts, task,
           last_done, calls >>

globals == << APP_CONFIG, CURRENT_VIEW, CREATED_VIEWS, TAB_SITE_MAP, ACTIVE_TAB_ID,
              LAYOUT_STATE, WEBVIEW_CREATE_IN_PROGRESS, SUMMARY_IN_PROGRESS,
              PENDING_EXTRACTS >>

host == << webviews, window >>

NoLocals ==
    [tab_id |-> "", site_id |-> "", left |-> "", right |-> "",
     left_site |-> "", right_site |-> "", desired_ratio |-> 0,
     bounds |-> ZeroBounds, ret |-> "", err |-> "", apply_visibility |-> FALSE,
     snap_layout |-> DefaultLayout, snap_active |-> "", visible |-> EmptyMap,
     request_id |-> 0, extracted |-> "", todo |-> << >>, removed |-> FALSE,
     fallback |-> << >>, had_webview |-> FALSE, had_entry |-> FALSE,
     ops |-> << >>, held |-> {}]

\* a task that is not running; cmd, arg and result are those of its last command
FinishedWith(cmd, arg, result, value) ==
    [pc |-> "idle", cmd |-> cmd, arg |-> arg, result |-> result, value |-> value] @@ NoLocals

Finished(cmd, arg, result) == FinishedWith(cmd, arg, result, None)

Running(cmd, arg, pc) ==
    [pc |-> pc, cmd |-> cmd, arg |-> arg, result |-> "", value |-> None] @@ NoLocals

Idle(p) == task[p].pc = "idle"

\* the command of p returns `result`
Return(p, result) ==
    task' = [task EXCEPT ![p] = Finished(@.cmd, @.arg, result)]

\* variant: every webview passes
AnyWebview(invoker) == TRUE

\* label check of is_main_invoker_webview
is_main_invoker_webview(invoker) == invoker = "main"

\* a command refused at its first statement
NotAllowed(p, cmd, arg) ==
    /\ task' = [task EXCEPT ![p] = Finished(cmd, arg, "NotAllowed")]
    /\ UNCHANGED << globals, channel, host, uuids, contexts >>

DefaultConfig ==
    [sites |-> << [id |-> "a", url |-> "u1", builtin |-> TRUE],
                  [id |-> "b", url |-> "u1", builtin |-> TRUE],
                  [id |-> "c", url |-> "u1", builtin |-> FALSE] >>,
     site_order |-> << "a", "b", "c" >>,
     pinned_site_ids |-> << >>,
     recent_site_ids |-> << >>,
     sidebar_width |-> Px(64),
     active_project_id |-> ""]

\* the statics other than APP_CONFIG and TAB_SITE_MAP, the host and the tasks at start-up
InitRest ==
    /\ CURRENT_VIEW = ""
    /\ CREATED_VIEWS = {}
    /\ ACTIVE_TAB_ID = ""
    /\ LAYOUT_STATE = DefaultLayout
    /\ WEBVIEW_CREATE_IN_PROGRESS = 0
    /\ SUMMARY_IN_PROGRESS = FALSE
    /\ PENDING_EXTRACTS = EmptyMap
    /\ channel = EmptyMap
    /\ webviews = EmptyMap
    /\ uuids = [tabs |-> 0, requests |-> 0]
    /\ contexts = EmptyMap
    /\ task = [p \in Procs |-> Finished("", << >>, "")]
    /\ last_done = ""
    /\ calls = 0
    /\ window = [w |-> Px(1000), h |-> Px(800)]

Init ==
    /\ APP_CONFIG = DefaultConfig
    /\ TAB_SITE_MAP = EmptyMap
    /\ InitRest

(***************************************************************************)
(* ensure_tab_webview, called with task[p].tab_id, task[p].site_id and the  *)
(* label task[p].ret at which the caller continues                          *)
(***************************************************************************)
CallEnsure(t, tab_id, site_id, ret) ==
    [t EXCEPT !.pc = "ens_bounds", !.tab_id = tab_id, !.site_id = site_id,
              !.ret = ret, !.err = ""]

\* resize_webviews_inner(app, apply_visibility), continuing at `ret`
CallResize(t, apply_visibility, ret) ==
    [t EXCEPT !.pc = "rz_bounds", !.apply_visibility = apply_visibility, !.ret = ret,
              !.bounds = ZeroBounds]

\* where the caller of ensure_tab_webview goes on after Ok(())
AfterEnsure(t) ==
    CASE t.ret = "switch" -> CallResize(t, TRUE, "sw_current")
      [] t.ret = "split_left" -> CallEnsure(t, t.right, t.right_site, "split_right")
      [] t.ret = "split_right" -> [t EXCEPT !.pc = "sl_commit", !.bounds = ZeroBounds]
      [] OTHER -> [t EXCEPT !.pc = "sum_get_webview", !.bounds = ZeroBounds]

\* where the caller of resize_webviews_inner goes on after Ok(())
AfterResize(t) ==
    IF t.ret = "return" THEN Finished(t.cmd, t.arg, "Ok")
    ELSE [t EXCEPT !.pc = t.ret, !.bounds = ZeroBounds, !.visible = EmptyMap,
                   !.apply_visibility = FALSE]

\* variant: the error returns at once, with no guard to drop
FailAtOnce(t, err) == Finished(t.cmd, t.arg, err)

\* an error leaves the command through `?`; summarize_active_tab still has its
\* SummaryInProgressGuard to drop
Fail(t, err) ==
    IF t.cmd = "summarize_active_tab"
    THEN [t EXCEPT !.pc = "sum_guard_drop", !.err = err]
    ELSE Finished(t.cmd, t.arg, err)

\* let (position, size) = calculate_webview_bounds(&window)
ens_bounds(p) ==
    /\ task[p].pc = "ens_bounds"
    /\ task' = [task EXCEPT ![p].pc = "ens_exists",
                            ![p].bounds = calculate_webview_bounds(window, APP_CONFIG.sidebar_width)]
    /\ UNCHANGED << globals, channel, host, uuids, contexts >>

\* let view_exists = CREATED_VIEWS.lock().unwrap().contains_key(tab_id)
ens_exists(p) ==
    /\ task[p].pc = "ens_exists"
    /\ task' = [task EXCEPT ![p].pc =
                    IF task[p].tab_id \in CREATED_VIEWS THEN "ens_reuse" ELSE "ens_site"]
    /\ UNCHANGED << globals, channel, host, uuids, contexts >>

\* variant: a record is taken as proof that the host has the instance
ens_reuse_by_record(p) ==
    /\ task[p].pc = "ens_reuse"
    /\ webviews' = IF task[p].tab_id \in DOMAIN webviews
                   THEN [webviews EXCEPT ![task[p].tab_id] =
                            [x |-> task[p].bounds.x, y |-> task[p].bounds.y,
                             w |-> task[p].bounds.w, h |-> task[p].bounds.h,
                             shown |-> @.shown]]
                   ELSE webviews
    /\ task' = [task EXCEPT ![p] = AfterEnsure(@)]
    /\ UNCHANGED << globals, channel, window, uuids, contexts >>

\* if let Some(webview) = app.get_webview(&webview_label) { set_position; set_size; return Ok }
ens_reuse(p) ==
    /\ task[p].pc = "ens_reuse"
    /\ IF task[p].tab_id \in DOMAIN webviews
       THEN /\ webviews' = [webviews EXCEPT ![task[p].tab_id] =
                               [x |-> task[p].bounds.x, y |-> task[p].bounds.y,
                                w |-> task[p].bounds.w, h |-> task[p].bounds.h,
                                shown |-> @.shown]]
            /\ task' = [task EXCEPT ![p] = AfterEnsure(@)]
       ELSE /\ webviews' = webviews
            /\ task' = [task EXCEPT ![p].pc = "ens_drop_stale"]
    /\ UNCHANGED << globals, channel, window, uuids, contexts >>

\* CREATED_VIEWS.lock().unwrap().remove(tab_id)
ens_drop_stale(p) ==
    /\ task[p].pc = "ens_drop_stale"
    /\ CREATED_VIEWS' = CREATED_VIEWS \ {task[p].tab_id}
    /\ task' = [task EXCEPT ![p].pc = "ens_site"]
    /\ UNCHANGED << APP_CONFIG, CURRENT_VIEW, TAB_SITE_MAP, ACTIVE_TAB_ID, LAYOUT_STATE,
                    WEBVIEW_CREATE_IN_PROGRESS, SUMMARY_IN_PROGRESS, PENDING_EXTRACTS,
                    channel, host, uuids, contexts >>

\* let site = get_site_by_id(site_id)?;  let url = site.url.parse()?
ens_site(p) ==
    /\ task[p].pc = "ens_site"
    /\ LET idx == SiteIndex(APP_CONFIG, task[p].site_id)
       IN  task' = [task EXCEPT ![p] =
               IF ~IsSome(idx) THEN Fail(@, "SiteNotFound")
               ELSE IF ~UrlParses(APP_CONFIG.sites[Unwrap(idx)].url) THEN Fail(@, "UrlParseFailed")
               ELSE [@ EXCEPT !.pc = "ens_incr"]]
    /\ UNCHANGED << globals, channel, host, uuids, contexts >>

\* WEBVIEW_CREATE_IN_PROGRESS.fetch_add(1);  let _guard = WebviewCreateGuard
ens_incr(p) ==
    /\ task[p].pc = "ens_incr"
    /\ WEBVIEW_CREATE_IN_PROGRESS' = WEBVIEW_CREATE_IN_PROGRESS + 1
    /\ task' = [task EXCEPT ![p].pc = "ens_add_child"]
    /\ UNCHANGED << APP_CONFIG, CURRENT_VIEW, CREATED_VIEWS, TAB_SITE_MAP, ACTIVE_TAB_ID,
                    LAYOUT_STATE, SUMMARY_IN_PROGRESS, PENDING_EXTRACTS,
                    channel, host, uuids, contexts >>

\* variant: the result of add_child is not looked at
ens_add_child_unchecked(p, host_ok) ==
    /\ task[p].pc = "ens_add_child"
    /\ webviews' = IF host_ok /\ task[p].tab_id \notin DOMAIN webviews
                   THEN (task[p].tab_id :>
                            [x |-> task[p].bounds.x, y |-> task[p].bounds.y,
                             w |-> task[p].bounds.w, h |-> task[p].bounds.h,
                             shown |-> TRUE]) @@ webviews
                   ELSE webviews
    /\ task' = [task EXCEPT ![p].pc = "ens_insert"]
    /\ UNCHANGED << globals, channel, window, uuids, contexts >>

\* window.add_child(builder, position, size): the host refuses a label it already
\* holds and may fail for reasons of its own (host_ok = FALSE)
ens_add_child(p, host_ok) ==
    /\ task[p].pc = "ens_add_child"
    /\ IF host_ok /\ task[p].tab_id \notin DOMAIN webviews
       THEN /\ webviews' = (task[p].tab_id :>
                               [x |-> task[p].bounds.x, y |-> task[p].bounds.y,
                                w |-> task[p].bounds.w, h |-> task[p].bounds.h,
                                shown |-> TRUE]) @@ webviews
            /\ task' = [task EXCEPT ![p].pc = "ens_insert"]
       ELSE /\ webviews' = webviews
            /\ task' = [task EXCEPT ![p].pc = "ens_guard_drop", ![p].err = "CreationFailed"]
    /\ UNCHANGED << globals, channel, window, uuids, contexts >>

\* CREATED_VIEWS.lock().unwrap().insert(tab_id, true)
ens_insert(p) ==
    /\ task[p].pc = "ens_insert"
    /\ CREATED_VIEWS' = CREATED_VIEWS \cup {task[p].tab_id}
    /\ task' = [task EXCEPT ![p].pc = "ens_guard_drop"]
    /\ UNCHANGED << APP_CONFIG, CURRENT_VIEW, TAB_SITE_MAP, ACTIVE_TAB_ID, LAYOUT_STATE,
                    WEBVIEW_CREATE_IN_PROGRESS, SUMMARY_IN_PROGRESS, PENDING_EXTRACTS,
                    channel, host, uuids, contexts >>

\* variant: the counter is decremented after a successful creation only
DropOnSuccess(counter, err) == IF err # "" THEN counter ELSE counter - 1

\* impl Drop for WebviewCreateGuard: fetch_sub(1), whatever the result
DropGuard(counter, err) == counter - 1

\* drop(_guard): WEBVIEW_CREATE_IN_PROGRESS.fetch_sub(1), then Ok(()) or the error
ens_guard_drop(p) ==
    /\ task[p].pc = "ens_guard_drop"
    /\ WEBVIEW_CREATE_IN_PROGRESS' = DropGuard(WEBVIEW_CREATE_IN_PROGRESS, task[p].err)
    /\ task' = [task EXCEPT ![p] =
                   IF @.err # "" THEN Fail(@, @.err)
                   ELSE AfterEnsure(@)]
    /\ UNCHANGED << APP_CONFIG, CURRENT_VIEW, CREATED_VIEWS, TAB_SITE_MAP, ACTIVE_TAB_ID,
                    LAYOUT_STATE, SUMMARY_IN_PROGRESS, PENDING_EXTRACTS,
                    channel, host, uuids, contexts >>

ensure_tab_webview(p) ==
    \/ ens_bounds(p)
    \/ ens_exists(p)
    \/ ens_reuse(p)
    \/ ens_drop_stale(p)
    \/ ens_site(p)
    \/ ens_incr(p)
    \/ \E host_ok \in BOOLEAN : ens_add_child(p, host_ok)
    \/ ens_insert(p)
    \/ ens_guard_drop(p)

(***************************************************************************)
(* resize_webviews_inner                                                   *)
(***************************************************************************)
\* let (content_pos, content_size) = calculate_webview_bounds(&window)
rz_bounds(p) ==
    /\ task[p].pc = "rz_bounds"
    /\ task' = [task EXCEPT ![p].pc = "rz_layout",
                            ![p].bounds = calculate_webview_bounds(window, APP_CONFIG.sidebar_width)]
    /\ UNCHANGED << globals, channel, host, uuids, contexts >>

\* let layout = LAYOUT_STATE.lock().unwrap().clone()
rz_layout(p) ==
    /\ task[p].pc = "rz_layout"
    /\ task' = [task EXCEPT ![p].pc = "rz_active", ![p].snap_layout = LAYOUT_STATE]
    /\ UNCHANGED << globals, channel, host, uuids, contexts >>

\* let active_tab_id = ACTIVE_TAB_ID.lock().unwrap().clone()
rz_active(p) ==
    /\ task[p].pc = "rz_active"
    /\ task' = [task EXCEPT ![p].pc = "rz_current", ![p].snap_active = ACTIVE_TAB_ID]
    /\ UNCHANGED << globals, channel, host, uuids, contexts >>

\* let current_site_id = CURRENT_VIEW.lock().unwrap().clone(), then the `visible` map
rz_current(p) ==
    /\ task[p].pc = "rz_current"
    /\ task' = [task EXCEPT ![p].pc = "rz_apply",
                            ![p].visible = VisibleMap(task[p].snap_layout, task[p].snap_active,
                                                      CURRENT_VIEW, task[p].bounds),
                            ![p].snap_layout = DefaultLayout,
                            ![p].snap_active = "",
                            ![p].bounds = ZeroBounds]
    /\ UNCHANGED << globals, channel, host, uuids, contexts >>

\* variant: show() and hide() are called whatever apply_visibility says
ApplyWithVisibility(wv, tab_id, views, visible, apply_visibility) ==
    IF tab_id \notin views THEN wv
    ELSE IF tab_id \in DOMAIN visible
         THEN [x |-> visible[tab_id].x, y |-> visible[tab_id].y,
               w |-> visible[tab_id].w, h |-> visible[tab_id].h,
               shown |-> TRUE]
         ELSE [wv EXCEPT !.shown = FALSE]

\* what the loop over CREATED_VIEWS does to one instance of the host
ApplyToWebview(wv, tab_id, views, visible, apply_visibility) ==
    IF tab_id \notin views THEN wv
    ELSE IF tab_id \in DOMAIN visible
         THEN [x |-> visible[tab_id].x, y |-> visible[tab_id].y,
               w |-> visible[tab_id].w, h |-> visible[tab_id].h,
               shown |-> IF apply_visibility THEN TRUE ELSE wv.shown]
         ELSE [wv EXCEPT !.shown = IF apply_visibility THEN FALSE ELSE @]

\* let views = CREATED_VIEWS.lock().unwrap().clone();  for (tab_id, _) in views { ... }
rz_apply(p) ==
    /\ task[p].pc = "rz_apply"
    /\ webviews' = [t \in DOMAIN webviews |->
                       ApplyToWebview(webviews[t], t, CREATED_VIEWS, task[p].visible,
                                      task[p].apply_visibility)]
    /\ task' = [task EXCEPT ![p] = AfterResize(@)]
    /\ UNCHANGED << globals, channel, window, uuids, contexts >>

resize_webviews_inner(p) ==
    \/ rz_bounds(p)
    \/ rz_layout(p)
    \/ rz_active(p)
    \/ rz_current(p)
    \/ rz_apply(p)

(***************************************************************************)
(* switch_tab, switch_view                                                 *)
(***************************************************************************)
\* variant: the mode is set and the slots are left as they are
SingleModeOnly(layout) == [layout EXCEPT !.mode = "Single"]

\* layout.mode = Single; layout.left_tab_id = None; layout.right_tab_id = None
SingleLayout(layout) ==
    [layout EXCEPT !.mode = "Single", !.left_tab_id = None, !.right_tab_id = None]

RECURSIVE Truncate(_, _)
\* Vec::truncate(n)
Truncate(s, n) == IF Len(s) <= n THEN s ELSE Truncate(SubSeq(s, 1, Len(s) - 1), n)

RECENT_CAPACITY == 10

\* variant: the site is put in front without removing its earlier entry
push_recent_site(cfg, site_id) ==
    [cfg EXCEPT !.recent_site_ids = Truncate(<< site_id >> \o @, RECENT_CAPACITY)]

\* upsert_recent_site
upsert_recent_site(cfg, site_id) ==
    [cfg EXCEPT !.recent_site_ids =
        Truncate(<< site_id >> \o SeqFilterOut(@, site_id), RECENT_CAPACITY)]

switch_tab(p, invoker, tab_id) ==
    /\ Idle(p)
    /\ IF ~is_main_invoker_webview(invoker)
       THEN NotAllowed(p, "switch_tab", << tab_id >>)
       ELSE /\ task' = [task EXCEPT ![p] =
                   [Running("switch_tab", << tab_id >>, "st_resolve") EXCEPT !.tab_id = tab_id]]
            /\ UNCHANGED << globals, channel, host, uuids, contexts >>

\* let site_id = get_tab_site_id(&tab_id)?
st_resolve(p) ==
    /\ task[p].pc = "st_resolve"
    /\ LET site == get_tab_site_id(APP_CONFIG, TAB_SITE_MAP, task[p].tab_id)
       IN  task' = [task EXCEPT ![p] =
               IF IsSome(site) THEN [@ EXCEPT !.pc = "st_layout", !.site_id = Unwrap(site)]
               ELSE Fail(@, "TabNotFound")]
    /\ UNCHANGED << globals, channel, host, uuids, contexts >>

\* { let mut layout = LAYOUT_STATE.lock(); mode = Single; left = None; right = None }
st_layout(p) ==
    /\ task[p].pc = "st_layout"
    /\ LAYOUT_STATE' = SingleLayout(LAYOUT_STATE)
    /\ task' = [task EXCEPT ![p].pc = "st_active"]
    /\ UNCHANGED << APP_CONFIG, CURRENT_VIEW, CREATED_VIEWS, TAB_SITE_MAP, ACTIVE_TAB_ID,
                    WEBVIEW_CREATE_IN_PROGRESS, SUMMARY_IN_PROGRESS, PENDING_EXTRACTS,
                    channel, host, uuids, contexts >>

\* *ACTIVE_TAB_ID.lock().unwrap() = tab_id;  then ensure_tab_webview(..)?
st_active(p) ==
    /\ task[p].pc = "st_active"
    /\ ACTIVE_TAB_ID' = task[p].tab_id
    /\ task' = [task EXCEPT ![p] = CallEnsure(@, @.tab_id, @.site_id, "switch")]
    /\ UNCHANGED << APP_CONFIG, CURRENT_VIEW, CREATED_VIEWS, TAB_SITE_MAP, LAYOUT_STATE,
                    WEBVIEW_CREATE_IN_PROGRESS, SUMMARY_IN_PROGRESS, PENDING_EXTRACTS,
                    channel, host, uuids, contexts >>

\* *CURRENT_VIEW.lock().unwrap() = site_id
sw_current(p) ==
    /\ task[p].pc = "sw_current"
    /\ CURRENT_VIEW' = task[p].site_id
    /\ task' = [task EXCEPT ![p].pc = "sw_recent"]
    /\ UNCHANGED << APP_CONFIG, CREATED_VIEWS, TAB_SITE_MAP, ACTIVE_TAB_ID, LAYOUT_STATE,
                    WEBVIEW_CREATE_IN_PROGRESS, SUMMARY_IN_PROGRESS, PENDING_EXTRACTS,
                    channel, host, uuids, contexts >>

\* upsert_recent_site(&site_id);  Ok(())
sw_recent(p) ==
    /\ task[p].pc = "sw_recent"
    /\ APP_CONFIG' = upsert_recent_site(APP_CONFIG, task[p].site_id)
    /\ Return(p, "Ok")
    /\ UNCHANGED << CURRENT_VIEW, CREATED_VIEWS, TAB_SITE_MAP, ACTIVE_TAB_ID, LAYOUT_STATE,
                    WEBVIEW_CREATE_IN_PROGRESS, SUMMARY_IN_PROGRESS, PENDING_EXTRACTS,
                    channel, host, uuids, contexts >>

switch_tab_inner(p) ==
    \/ st_resolve(p)
    \/ st_layout(p)
    \/ st_active(p)
    \/ sw_current(p)
    \/ sw_recent(p)

switch_view(p, invoker, site_id) ==
    /\ Idle(p)
    /\ IF ~is_main_invoker_webview(invoker)
       THEN NotAllowed(p, "switch_view", << site_id >>)
       ELSE /\ task' = [task EXCEPT ![p] =
                   [Running("switch_view", << site_id >>, "sv_site") EXCEPT !.site_id = site_id]]
            /\ UNCHANGED << globals, channel, host, uuids, contexts >>

\* let _ = get_site_by_id(&site_id)?;  the main tab of a site has tab_id == site_id
switch_view_inner(p) ==
    /\ task[p].pc = "sv_site"
    /\ task' = [task EXCEPT ![p] =
           IF IsSome(SiteIndex(APP_CONFIG, @.site_id))
           THEN [@ EXCEPT !.pc = "st_layout", !.tab_id = task[p].site_id]
           ELSE Fail(@, "SiteNotFound")]
    /\ UNCHANGED << globals, channel, host, uuids, contexts >>

(***************************************************************************)
(* set_layout                                                              *)
(***************************************************************************)
\* variant: the two slots are not compared
SetLayoutArgUnchecked(mode, left_tab_id, right_tab_id) ==
    IF mode = "single" THEN ""
    ELSE IF mode # "split" THEN "InvalidMode"
    ELSE IF ~IsSome(left_tab_id) THEN "MissingLeft"
    ELSE IF ~IsSome(right_tab_id) THEN "MissingRight"
    ELSE ""

\* the checks of set_layout that read no shared state: the error it returns, or ""
SetLayoutArgError(mode, left_tab_id, right_tab_id) ==
    IF mode = "single" THEN ""
    ELSE IF mode # "split" THEN "InvalidMode"
    ELSE IF ~IsSome(left_tab_id) THEN "MissingLeft"
    ELSE IF ~IsSome(right_tab_id) THEN "MissingRight"
    ELSE IF Unwrap(left_tab_id) = Unwrap(right_tab_id) THEN "InvalidArgument"
    ELSE ""

set_layout(p, invoker, mode, ratio, left_tab_id, right_tab_id) ==
    /\ Idle(p)
    /\ LET arg == << mode, ratio, left_tab_id, right_tab_id >>
           err == SetLayoutArgError(mode, left_tab_id, right_tab_id)
       IN  IF ~is_main_invoker_webview(invoker)
           THEN NotAllowed(p, "set_layout", arg)
           ELSE /\ task' = [task EXCEPT ![p] =
                       IF err # "" THEN Finished("set_layout", arg, err)
                       ELSE IF mode = "single" THEN Running("set_layout", arg, "sl_single")
                       ELSE [Running("set_layout", arg, "sl_ratio") EXCEPT
                                !.left = Unwrap(left_tab_id), !.right = Unwrap(right_tab_id)]]
                /\ UNCHANGED << globals, channel, host, uuids, contexts >>

\* mode == "single": { layout.mode = Single; left = None; right = None }, then resize
sl_single(p) ==
    /\ task[p].pc = "sl_single"
    /\ LAYOUT_STATE' = SingleLayout(LAYOUT_STATE)
    /\ task' = [task EXCEPT ![p] = CallResize(@, TRUE, "return")]
    /\ UNCHANGED << APP_CONFIG, CURRENT_VIEW, CREATED_VIEWS, TAB_SITE_MAP, ACTIVE_TAB_ID,
                    WEBVIEW_CREATE_IN_PROGRESS, SUMMARY_IN_PROGRESS, PENDING_EXTRACTS,
                    channel, host, uuids, contexts >>

\* variant: the ratio is stored as supplied
DesiredRatioUnclamped(ratio, layout) ==
    IF IsSome(ratio) THEN Unwrap(ratio) ELSE layout.ratio

\* ratio.unwrap_or(layout.ratio).clamp(0.2, 0.8)
DesiredRatio(ratio, layout) ==
    ClampRatio(IF IsSome(ratio) THEN Unwrap(ratio) ELSE layout.ratio)

\* let desired_ratio = { let layout = LAYOUT_STATE.lock(); ... }
sl_ratio(p) ==
    /\ task[p].pc = "sl_ratio"
    /\ task' = [task EXCEPT ![p].pc = "sl_left_site",
                            ![p].desired_ratio = DesiredRatio(task[p].arg[2], LAYOUT_STATE)]
    /\ UNCHANGED << globals, channel, host, uuids, contexts >>

\* let left_site = get_tab_site_id(&left)?
sl_left_site(p) ==
    /\ task[p].pc = "sl_left_site"
    /\ LET site == get_tab_site_id(APP_CONFIG, TAB_SITE_MAP, task[p].left)
       IN  task' = [task EXCEPT ![p] =
               IF IsSome(site) THEN [@ EXCEPT !.pc = "sl_right_site", !.left_site = Unwrap(site)]
               ELSE Fail(@, "TabNotFound")]
    /\ UNCHANGED << globals, channel, host, uuids, contexts >>

\* variant: the layout is committed as soon as both tabs are resolved, before the instances
\* are ensured
sl_right_site_commits(p) ==
    /\ task[p].pc = "sl_right_site"
    /\ LET site == get_tab_site_id(APP_CONFIG, TAB_SITE_MAP, task[p].right)
       IN  /\ task' = [task EXCEPT ![p] =
                  IF IsSome(site)
                  THEN CallEnsure([@ EXCEPT !.right_site = Unwrap(site)],
                                  @.left, @.left_site, "split_left")
                  ELSE Fail(@, "TabNotFound")]
           /\ LAYOUT_STATE' =
                  IF IsSome(site)
                  THEN [mode |-> "Split", ratio |-> task[p].desired_ratio,
                        left_tab_id |-> Some(task[p].left),
                        right_tab_id |-> Some(task[p].right)]
                  ELSE LAYOUT_STATE
    /\ UNCHANGED << APP_CONFIG, CURRENT_VIEW, CREATED_VIEWS, TAB_SITE_MAP, ACTIVE_TAB_ID,
                    WEBVIEW_CREATE_IN_PROGRESS, SUMMARY_IN_PROGRESS, PENDING_EXTRACTS,
                    channel, host, uuids, contexts >>

\* let right_site = get_tab_site_id(&right)?;  then ensure_tab_webview(left)?
sl_right_site(p) ==
    /\ task[p].pc = "sl_right_site"
    /\ LET site == get_tab_site_id(APP_CONFIG, TAB_SITE_MAP, task[p].right)
       IN  task' = [task EXCEPT ![p] =
               IF IsSome(site)
               THEN CallEnsure([@ EXCEPT !.right_site = Unwrap(site)],
                               @.left, @.left_site, "split_left")
               ELSE Fail(@, "TabNotFound")]
    /\ UNCHANGED << globals, channel, host, uuids, contexts >>

SplitLayout(layout, ratio, left, right) ==
    [mode |-> "Split", ratio |-> ratio,
     left_tab_id |-> Some(left), right_tab_id |-> Some(right)]

\* { layout.mode = Split; ratio = desired_ratio; left = Some(left); right = Some(right) }
sl_commit(p) ==
    /\ task[p].pc = "sl_commit"
    /\ LAYOUT_STATE' = SplitLayout(LAYOUT_STATE, task[p].desired_ratio,
                                   task[p].left, task[p].right)
    /\ task' = [task EXCEPT ![p] = CallResize(@, TRUE, "sl_current")]
    /\ UNCHANGED << APP_CONFIG, CURRENT_VIEW, CREATED_VIEWS, TAB_SITE_MAP, ACTIVE_TAB_ID,
                    WEBVIEW_CREATE_IN_PROGRESS, SUMMARY_IN_PROGRESS, PENDING_EXTRACTS,
                    channel, host, uuids, contexts >>

\* CURRENT_VIEW after a split: the active tab's site, else the left tab's site, else as it was
CurrentViewAfterSplit(cfg, map, active_tab_id, left, current) ==
    LET active_site == get_tab_site_id(cfg, map, active_tab_id)
        left_site == get_tab_site_id(cfg, map, left)
    IN  IF IsSome(active_site) THEN Unwrap(active_site)
        ELSE IF IsSome(left_site) THEN Unwrap(left_site)
        ELSE current

\* if let Ok(active_site) = get_tab_site_id(&ACTIVE_TAB_ID.lock().unwrap().clone()) { .. }
sl_current(p) ==
    /\ task[p].pc = "sl_current"
    /\ CURRENT_VIEW' = CurrentViewAfterSplit(APP_CONFIG, TAB_SITE_MAP, ACTIVE_TAB_ID,
                                             task[p].left, CURRENT_VIEW)
    /\ Return(p, "Ok")
    /\ UNCHANGED << APP_CONFIG, CREATED_VIEWS, TAB_SITE_MAP, ACTIVE_TAB_ID, LAYOUT_STATE,
                    WEBVIEW_CREATE_IN_PROGRESS, SUMMARY_IN_PROGRESS, PENDING_EXTRACTS,
                    channel, host, uuids, contexts >>

set_layout_steps(p) ==
    \/ sl_single(p)
    \/ sl_ratio(p)
    \/ sl_left_site(p)
    \/ sl_right_site(p)
    \/ sl_commit(p)
    \/ sl_current(p)

(***************************************************************************)
(* close_tab                                                               *)
(***************************************************************************)
close_tab(p, invoker, tab_id) ==
    /\ Idle(p)
    /\ IF ~is_main_invoker_webview(invoker)
       THEN NotAllowed(p, "close_tab", << tab_id >>)
       ELSE /\ task' = [task EXCEPT ![p] =
                   [Running("close_tab", << tab_id >>, "ct_resolve") EXCEPT !.tab_id = tab_id]]
            /\ UNCHANGED << globals, channel, host, uuids, contexts >>

\* let closed_site_id = get_tab_site_id(&tab_id).unwrap_or_else(|_| tab_id.clone())
ct_resolve(p) ==
    /\ task[p].pc = "ct_resolve"
    /\ LET site == get_tab_site_id(APP_CONFIG, TAB_SITE_MAP, task[p].tab_id)
       IN  task' = [task EXCEPT ![p].pc = "ct_close",
                                ![p].site_id = IF IsSome(site) THEN Unwrap(site)
                                               ELSE task[p].tab_id]
    /\ UNCHANGED << globals, channel, host, uuids, contexts >>

\* the host drops the instance labelled "ai_" + tab_id, if it holds one
CloseWebview(wvs, tab_id) == [t \in DOMAIN wvs \ {tab_id} |-> wvs[t]]

\* if let Some(webview) = app.get_webview(&webview_label) { let _ = webview.close(); }
\* `had_webview` is whether get_webview returned an instance
ct_close(p) ==
    /\ task[p].pc = "ct_close"
    /\ webviews' = CloseWebview(webviews, task[p].tab_id)
    /\ task' = [task EXCEPT ![p].pc = "ct_views",
                            ![p].had_webview = task[p].tab_id \in DOMAIN webviews]
    /\ UNCHANGED << globals, channel, window, uuids, contexts >>

\* CREATED_VIEWS.lock().unwrap().remove(&tab_id); `removed` is whether it held a record
ct_views(p) ==
    /\ task[p].pc = "ct_views"
    /\ CREATED_VIEWS' = CREATED_VIEWS \ {task[p].tab_id}
    /\ task' = [task EXCEPT ![p].pc = "ct_map",
                            ![p].removed = task[p].tab_id \in CREATED_VIEWS]
    /\ UNCHANGED << APP_CONFIG, CURRENT_VIEW, TAB_SITE_MAP, ACTIVE_TAB_ID, LAYOUT_STATE,
                    WEBVIEW_CREATE_IN_PROGRESS, SUMMARY_IN_PROGRESS, PENDING_EXTRACTS,
                    channel, host, uuids, contexts >>

\* variant: the entries of the other tabs of the same site go as well
MapRemoveSite(map, key) ==
    [k \in {j \in DOMAIN map \ {key} : key \notin DOMAIN map \/ map[j] # map[key]} |-> map[k]]

MapRemove(map, key) == [k \in DOMAIN map \ {key} |-> map[k]]

\* TAB_SITE_MAP.lock().unwrap().remove(&tab_id); `had_entry` is whether it held an entry
ct_map(p) ==
    /\ task[p].pc = "ct_map"
    /\ TAB_SITE_MAP' = MapRemove(TAB_SITE_MAP, task[p].tab_id)
    /\ task' = [task EXCEPT ![p].pc = "ct_fallback",
                            ![p].had_entry = task[p].tab_id \in DOMAIN TAB_SITE_MAP]
    /\ UNCHANGED << APP_CONFIG, CURRENT_VIEW, CREATED_VIEWS, ACTIVE_TAB_ID, LAYOUT_STATE,
                    WEBVIEW_CREATE_IN_PROGRESS, SUMMARY_IN_PROGRESS, PENDING_EXTRACTS,
                    channel, host, uuids, contexts >>

\* the first id of `ids` that is an existing site other than exclude_site_id
FirstOf(ids, existing, exclude_site_id) ==
    LET ok == {i \in 1..Len(ids) : ids[i] \in existing /\ ids[i] # exclude_site_id}
    IN  IF ok = {} THEN None
        ELSE Some(ids[CHOOSE i \in ok : \A j \in ok : i <= j])

\* variant: the pinned sites are not looked at
DisplayOrderFirst(cfg, exclude_site_id) ==
    FirstOf(cfg.site_order, SiteIdsOf(cfg), exclude_site_id)

\* first_site_id_excluding: pinned order, then display order, then any remaining site
first_site_id_excluding(cfg, exclude_site_id) ==
    LET existing == SiteIdsOf(cfg)
        pinned == FirstOf(cfg.pinned_site_ids, existing, exclude_site_id)
        ordered == FirstOf(cfg.site_order, existing, exclude_site_id)
        any == FirstOf([i \in 1..Len(cfg.sites) |-> cfg.sites[i].id], existing, exclude_site_id)
    IN  IF IsSome(pinned) THEN pinned
        ELSE IF IsSome(ordered) THEN ordered
        ELSE any

\* the slots of a Split layout after the closed tab left them
SlotsAfterClose(layout, tab_id) ==
    [left |-> IF layout.left_tab_id = Some(tab_id) THEN None ELSE layout.left_tab_id,
     right |-> IF layout.right_tab_id = Some(tab_id) THEN None ELSE layout.right_tab_id]

\* the CloseFallback close_tab picks: << kind, id >>
CloseFallback(layout, active_tab_id, cfg, tab_id, closed_site_id) ==
    IF layout.mode = "Single"
    THEN IF active_tab_id = tab_id
         THEN LET first == first_site_id_excluding(cfg, closed_site_id)
              IN  IF IsSome(first) THEN << "SwitchToFirstSite", Unwrap(first) >>
                  ELSE << "ClearToEmpty", "" >>
         ELSE << "None", "" >>
    ELSE LET slots == SlotsAfterClose(layout, tab_id)
             remaining == IF IsSome(slots.left) THEN slots.left ELSE slots.right
         IN  IF ~IsSome(slots.left) \/ ~IsSome(slots.right)
             THEN IF IsSome(remaining) THEN << "SwitchToTab", Unwrap(remaining) >>
                  ELSE << "None", "" >>
             ELSE << "None", "" >>

\* LAYOUT_STATE when close_tab releases its lock
LayoutAfterClose(layout, tab_id) ==
    IF layout.mode = "Single" THEN layout
    ELSE LET slots == SlotsAfterClose(layout, tab_id)
         IN  IF ~IsSome(slots.left) \/ ~IsSome(slots.right)
             THEN SingleLayout(layout)
             ELSE [layout EXCEPT !.left_tab_id = slots.left, !.right_tab_id = slots.right]

\* let fallback = { let mut layout = LAYOUT_STATE.lock().unwrap(); match layout.mode { .. } }
ct_fallback(p) ==
    /\ task[p].pc = "ct_fallback"
    /\ LET fb == CloseFallback(LAYOUT_STATE, ACTIVE_TAB_ID, APP_CONFIG,
                               task[p].tab_id, task[p].site_id)
       IN  /\ LAYOUT_STATE' = LayoutAfterClose(LAYOUT_STATE, task[p].tab_id)
           /\ task' = [task EXCEPT ![p] =
                  LET t == [@ EXCEPT !.fallback = fb]
                  IN  CASE fb[1] = "None" -> CallResize(t, TRUE, "return")
                        [] fb[1] = "SwitchToTab" ->
                               [t EXCEPT !.pc = "st_resolve", !.tab_id = fb[2]]
                        [] fb[1] = "SwitchToFirstSite" ->
                               [t EXCEPT !.pc = "ct_clear_active", !.site_id = fb[2],
                                         !.ret = "switch"]
                        [] OTHER -> [t EXCEPT !.pc = "ct_clear_active", !.ret = "clear"]]
    /\ UNCHANGED << APP_CONFIG, CURRENT_VIEW, CREATED_VIEWS, TAB_SITE_MAP, ACTIVE_TAB_ID,
                    WEBVIEW_CREATE_IN_PROGRESS, SUMMARY_IN_PROGRESS, PENDING_EXTRACTS,
                    channel, host, uuids, contexts >>

\* *ACTIVE_TAB_ID.lock().unwrap() = String::new()
ct_clear_active(p) ==
    /\ task[p].pc = "ct_clear_active"
    /\ ACTIVE_TAB_ID' = ""
    /\ task' = [task EXCEPT ![p].pc = "ct_clear_current"]
    /\ UNCHANGED << APP_CONFIG, CURRENT_VIEW, CREATED_VIEWS, TAB_SITE_MAP, LAYOUT_STATE,
                    WEBVIEW_CREATE_IN_PROGRESS, SUMMARY_IN_PROGRESS, PENDING_EXTRACTS,
                    channel, host, uuids, contexts >>

\* *CURRENT_VIEW.lock().unwrap() = String::new(); then switch_view_inner(site_id) or the
\* closing resize_webviews_inner
ct_clear_current(p) ==
    /\ task[p].pc = "ct_clear_current"
    /\ CURRENT_VIEW' = ""
    /\ task' = [task EXCEPT ![p] =
           IF @.ret = "switch" THEN [@ EXCEPT !.pc = "sv_site"]
           ELSE CallResize(@, TRUE, "return")]
    /\ UNCHANGED << APP_CONFIG, CREATED_VIEWS, TAB_SITE_MAP, ACTIVE_TAB_ID, LAYOUT_STATE,
                    WEBVIEW_CREATE_IN_PROGRESS, SUMMARY_IN_PROGRESS, PENDING_EXTRACTS,
                    channel, host, uuids, contexts >>

close_tab_steps(p) ==
    \/ ct_resolve(p)
    \/ ct_close(p)
    \/ ct_views(p)
    \/ ct_map(p)
    \/ ct_fallback(p)
    \/ ct_clear_active(p)
    \/ ct_clear_current(p)

(***************************************************************************)
(* summarize_active_tab and aihub_submit_page_text                         *)
(***************************************************************************)
\* variant: a gate that admits every caller
GateNeverBusy(flag) == FALSE

\* SUMMARY_IN_PROGRESS.compare_exchange(false, true).is_err()
GateBusy(flag) == flag

summarize_active_tab(p, invoker) ==
    /\ Idle(p)
    /\ uuids.requests < MaxRequests
    /\ IF ~is_main_invoker_webview(invoker)
       THEN NotAllowed(p, "summarize_active_tab", << >>)
       ELSE /\ IF GateBusy(SUMMARY_IN_PROGRESS)
               THEN /\ task' = [task EXCEPT ![p] =
                           Finished("summarize_active_tab", << >>, "Busy")]
                    /\ UNCHANGED SUMMARY_IN_PROGRESS
               ELSE /\ task' = [task EXCEPT ![p] =
                           Running("summarize_active_tab", << >>, "sum_active")]
                    /\ SUMMARY_IN_PROGRESS' = TRUE
            /\ UNCHANGED << APP_CONFIG, CURRENT_VIEW, CREATED_VIEWS, TAB_SITE_MAP,
                            ACTIVE_TAB_ID, LAYOUT_STATE, WEBVIEW_CREATE_IN_PROGRESS,
                            PENDING_EXTRACTS, channel, host, uuids, contexts >>

\* let active = ACTIVE_TAB_ID.lock().unwrap().clone()
sum_active(p) ==
    /\ task[p].pc = "sum_active"
    /\ task' = [task EXCEPT ![p] =
           IF ACTIVE_TAB_ID # "" THEN [@ EXCEPT !.pc = "sum_resolve", !.tab_id = ACTIVE_TAB_ID]
           ELSE [@ EXCEPT !.pc = "sum_current"]]
    /\ UNCHANGED << globals, channel, host, uuids, contexts >>

\* CURRENT_VIEW.lock().unwrap().clone();  if tab_id.trim().is_empty() { return Err(..) }
sum_current(p) ==
    /\ task[p].pc = "sum_current"
    /\ task' = [task EXCEPT ![p] =
           IF CURRENT_VIEW # "" THEN [@ EXCEPT !.pc = "sum_resolve", !.tab_id = CURRENT_VIEW]
           ELSE Fail(@, "NoPage")]
    /\ UNCHANGED << globals, channel, host, uuids, contexts >>

\* let site_id = get_tab_site_id(&tab_id).unwrap_or_else(|_| tab_id.clone());  ensure(..)?
sum_resolve(p) ==
    /\ task[p].pc = "sum_resolve"
    /\ LET site == get_tab_site_id(APP_CONFIG, TAB_SITE_MAP, task[p].tab_id)
       IN  task' = [task EXCEPT ![p] =
               CallEnsure(@, @.tab_id, IF IsSome(site) THEN Unwrap(site) ELSE @.tab_id,
                          "summary")]
    /\ UNCHANGED << globals, channel, host, uuids, contexts >>

\* let child = app.get_webview(&webview_label).ok_or_else(|| "Webview 不存在")?
sum_get_webview(p) ==
    /\ task[p].pc = "sum_get_webview"
    /\ task' = [task EXCEPT ![p] =
           IF @.tab_id \in DOMAIN webviews THEN [@ EXCEPT !.pc = "sum_register"]
           ELSE Fail(@, "WebviewMissing")]
    /\ UNCHANGED << globals, channel, host, uuids, contexts >>

\* the token Uuid::new_v4() gives request `rid`: a fresh value of its own
TokenOf(rid) == rid

OpenChannel == [state |-> "open", text |-> "", rx_alive |-> TRUE, takes |-> 0]

\* PENDING_EXTRACTS.lock().unwrap().insert(request_id, PendingExtract { token, tx })
sum_register(p) ==
    /\ task[p].pc = "sum_register"
    /\ LET rid == uuids.requests + 1
       IN  /\ uuids' = [uuids EXCEPT !.requests = rid]
           /\ PENDING_EXTRACTS' = (rid :> TokenOf(rid)) @@ PENDING_EXTRACTS
           /\ channel' = (rid :> OpenChannel) @@ channel
           /\ task' = [task EXCEPT ![p].pc = "sum_eval", ![p].request_id = rid]
    /\ UNCHANGED << APP_CONFIG, CURRENT_VIEW, CREATED_VIEWS, TAB_SITE_MAP, ACTIVE_TAB_ID,
                    LAYOUT_STATE, WEBVIEW_CREATE_IN_PROGRESS, SUMMARY_IN_PROGRESS,
                    host, contexts >>

\* child.eval(&js).map_err(..)?
sum_eval(p, eval_ok) ==
    /\ task[p].pc = "sum_eval"
    /\ task' = [task EXCEPT ![p] =
           IF eval_ok THEN [@ EXCEPT !.pc = "sum_wait"] ELSE Fail(@, "EvalFailed")]
    /\ channel' = IF eval_ok THEN channel
                  ELSE [channel EXCEPT ![task[p].request_id].rx_alive = FALSE]
    /\ UNCHANGED << globals, host, uuids, contexts >>

\* tokio::time::timeout(20s, rx).await: Ok(Ok(text))
sum_recv(p) ==
    /\ task[p].pc = "sum_wait"
    /\ channel[task[p].request_id].state = "sent"
    /\ task' = [task EXCEPT ![p] =
           IF channel[@.request_id].text = "" THEN Fail(@, "ExtractEmpty")
           ELSE [@ EXCEPT !.pc = "sum_llm", !.extracted = channel[task[p].request_id].text]]
    /\ channel' = [channel EXCEPT ![task[p].request_id].rx_alive = FALSE]
    /\ UNCHANGED << globals, host, uuids, contexts >>

\* tokio::time::timeout(20s, rx).await: Ok(Err(RecvError)), the sender was dropped
sum_recv_error(p) ==
    /\ task[p].pc = "sum_wait"
    /\ channel[task[p].request_id].state = "closed"
    /\ task' = [task EXCEPT ![p] = Fail(@, "ExtractFailed")]
    /\ channel' = [channel EXCEPT ![task[p].request_id].rx_alive = FALSE]
    /\ UNCHANGED << globals, host, uuids, contexts >>

\* tokio::time::timeout(20s, rx).await: Err(Elapsed)
sum_extract_timeout(p) ==
    /\ task[p].pc = "sum_wait"
    /\ channel[task[p].request_id].state = "open"
    /\ task' = [task EXCEPT ![p].pc = "sum_timeout_remove"]
    /\ channel' = [channel EXCEPT ![task[p].request_id].rx_alive = FALSE]
    /\ UNCHANGED << globals, host, uuids, contexts >>

\* a PendingExtract taken out of the table and dropped: its sender goes with it
DropSender(ch, rid) ==
    IF rid \in DOMAIN ch /\ ch[rid].state = "open"
    THEN [ch EXCEPT ![rid].state = "closed"]
    ELSE ch

\* variant: the timeout leaves the table as it is
KeepPending(table, request_id) == table

\* PENDING_EXTRACTS.lock().unwrap().remove(&request_id) of the timeout branch
RemovePending(table, request_id) == MapRemove(table, request_id)

\* PENDING_EXTRACTS.lock().unwrap().remove(&request_id);  return Err("提取超时")
sum_timeout_remove(p) ==
    /\ task[p].pc = "sum_timeout_remove"
    /\ PENDING_EXTRACTS' = RemovePending(PENDING_EXTRACTS, task[p].request_id)
    /\ channel' = IF task[p].request_id \in DOMAIN PENDING_EXTRACTS
                  THEN DropSender(channel, task[p].request_id)
                  ELSE channel
    /\ task' = [task EXCEPT ![p] = Fail(@, "ExtractTimeout")]
    /\ UNCHANGED << APP_CONFIG, CURRENT_VIEW, CREATED_VIEWS, TAB_SITE_MAP, ACTIVE_TAB_ID,
                    LAYOUT_STATE, WEBVIEW_CREATE_IN_PROGRESS, SUMMARY_IN_PROGRESS,
                    host, uuids, contexts >>

\* variant: the 60 s timer covers the extraction wait only
sum_timeout_of_wait(p) ==
    /\ task[p].pc = "sum_wait" /\ channel[task[p].request_id].state = "open"
    /\ task' = [task EXCEPT ![p] = Fail(@, "SummaryTimeout")]
    /\ channel' = [channel EXCEPT ![task[p].request_id].rx_alive = FALSE]
    /\ UNCHANGED << globals, host, uuids, contexts >>

\* tokio::time::timeout(60s, async { .. }).await: Err(Elapsed) at one of the two awaits
sum_overall_timeout(p) ==
    /\ \/ task[p].pc = "sum_wait" /\ channel[task[p].request_id].state = "open"
       \/ task[p].pc = "sum_llm"
    /\ task' = [task EXCEPT ![p] = Fail(@, "SummaryTimeout")]
    /\ channel' = [channel EXCEPT ![task[p].request_id].rx_alive = FALSE]
    /\ UNCHANGED << globals, host, uuids, contexts >>

\* summarize_text(webview, extracted, Some(site_id)).await?
sum_llm(p, llm_ok) ==
    /\ task[p].pc = "sum_llm"
    /\ task' = [task EXCEPT ![p] =
           IF llm_ok THEN [@ EXCEPT !.pc = "sum_project"] ELSE Fail(@, "UpstreamError")]
    /\ UNCHANGED << globals, channel, host, uuids, contexts >>

NewProject == "proj1"
EmptyProject == [notes |-> "", summary |-> ""]

\* the first project of load_contexts(), if any
FirstProject(ctx) ==
    IF DOMAIN ctx = {} THEN None ELSE Some(CHOOSE id \in DOMAIN ctx : TRUE)

\* let project_id = ensure_active_project_id()?
sum_project(p, io_ok) ==
    /\ task[p].pc = "sum_project"
    /\ IF APP_CONFIG.active_project_id # ""
       THEN /\ task' = [task EXCEPT ![p].pc = "sum_persist"]
            /\ UNCHANGED << APP_CONFIG, contexts >>
       ELSE IF IsSome(FirstProject(contexts))
       THEN /\ APP_CONFIG' = [APP_CONFIG EXCEPT !.active_project_id =
                                 Unwrap(FirstProject(contexts))]
            /\ task' = [task EXCEPT ![p].pc = "sum_persist"]
            /\ UNCHANGED contexts
       ELSE IF io_ok
       THEN /\ contexts' = (NewProject :> EmptyProject) @@ contexts
            /\ APP_CONFIG' = [APP_CONFIG EXCEPT !.active_project_id = NewProject]
            /\ task' = [task EXCEPT ![p].pc = "sum_persist"]
       ELSE /\ task' = [task EXCEPT ![p] = Fail(@, "IOError")]
            /\ UNCHANGED << APP_CONFIG, contexts >>
    /\ UNCHANGED << CURRENT_VIEW, CREATED_VIEWS, TAB_SITE_MAP, ACTIVE_TAB_ID, LAYOUT_STATE,
                    WEBVIEW_CREATE_IN_PROGRESS, SUMMARY_IN_PROGRESS, PENDING_EXTRACTS,
                    channel, host, uuids >>

\* the summary the collaborator returns for a text
SummaryOf(text) == text

\* the project list summarize_active_tab hands to save_contexts
PersistSummary(ctx, project_id, extracted, summary) ==
    IF project_id \in DOMAIN ctx
    THEN [ctx EXCEPT ![project_id] = [notes |-> extracted, summary |-> summary]]
    ELSE (project_id :> [notes |-> "", summary |-> summary]) @@ ctx

\* let _ = save_contexts(&projects);  Ok(summary)
sum_persist(p, io_ok) ==
    /\ task[p].pc = "sum_persist"
    /\ contexts' = IF io_ok
                   THEN PersistSummary(contexts, APP_CONFIG.active_project_id,
                                       task[p].extracted, SummaryOf(task[p].extracted))
                   ELSE contexts
    /\ task' = [task EXCEPT ![p].pc = "sum_guard_drop", ![p].err = ""]
    /\ UNCHANGED << globals, channel, host, uuids >>

\* drop(_guard): SUMMARY_IN_PROGRESS.store(false);  the command returns
sum_guard_drop(p) ==
    /\ task[p].pc = "sum_guard_drop"
    /\ SUMMARY_IN_PROGRESS' = FALSE
    /\ task' = [task EXCEPT ![p] =
           IF @.err # "" THEN Finished(@.cmd, @.arg, @.err)
           ELSE FinishedWith(@.cmd, @.arg, "Ok", Some(SummaryOf(@.extracted)))]
    /\ UNCHANGED << APP_CONFIG, CURRENT_VIEW, CREATED_VIEWS, TAB_SITE_MAP, ACTIVE_TAB_ID,
                    LAYOUT_STATE, WEBVIEW_CREATE_IN_PROGRESS, PENDING_EXTRACTS,
                    channel, host, uuids, contexts >>

summarize_steps(p) ==
    \/ sum_active(p)
    \/ sum_current(p)
    \/ sum_resolve(p)
    \/ sum_get_webview(p)
    \/ sum_register(p)
    \/ \E eval_ok \in BOOLEAN : sum_eval(p, eval_ok)
    \/ sum_recv(p)
    \/ sum_recv_error(p)
    \/ sum_extract_timeout(p)
    \/ sum_timeout_remove(p)
    \/ sum_overall_timeout(p)
    \/ \E llm_ok \in BOOLEAN : sum_llm(p, llm_ok)
    \/ \E io_ok \in BOOLEAN : sum_project(p, io_ok)
    \/ \E io_ok \in BOOLEAN : sum_persist(p, io_ok)
    \/ sum_guard_drop(p)

\* what tx.send(text) leaves in the channel
Send(ch, text) ==
    IF ch.rx_alive THEN [ch EXCEPT !.state = "sent", !.text = text]
    ELSE [ch EXCEPT !.state = "closed"]

\* variant: the text is sent whatever the token
DeliverUnchecked(ch, registered, token, text) ==
    [Send(ch, text) EXCEPT !.takes = @ + 1]

\* the channel of an entry aihub_submit_page_text took out of the table
Deliver(ch, registered, token, text) ==
    IF registered # token THEN [ch EXCEPT !.state = "closed", !.takes = @ + 1]
    ELSE [Send(ch, text) EXCEPT !.takes = @ + 1]

\* variant: the entry is looked up and left in the table
PeekPending(table, request_id) == table

\* PENDING_EXTRACTS.lock().unwrap().remove(&request_id)
TakePending(table, request_id) == MapRemove(table, request_id)

\* variant: an unknown request, a wrong token and a failed send are reported
SubmitResultStrict(table, ch, request_id, token) ==
    IF request_id \notin DOMAIN table THEN "UnknownRequest"
    ELSE IF table[request_id] # token THEN "BadToken"
    ELSE IF ~ch[request_id].rx_alive THEN "SendFailed"
    ELSE "Ok"

\* the Result aihub_submit_page_text returns: Ok(()) when the token differs, Ok(()) after
\* `let _ = p.tx.send(text)` whatever send returned, Ok(()) when nothing was pending
SubmitResult(table, ch, request_id, token) ==
    IF request_id \notin DOMAIN table THEN "Ok"
    ELSE IF table[request_id] # token THEN "Ok"
    ELSE "Ok"

\* aihub_submit_page_text: any page may call it, with any arguments
aihub_submit_page_text(request_id, token, text) ==
    /\ IF request_id \in DOMAIN PENDING_EXTRACTS
       THEN /\ PENDING_EXTRACTS' = TakePending(PENDING_EXTRACTS, request_id)
            /\ channel' = [channel EXCEPT ![request_id] =
                              Deliver(@, PENDING_EXTRACTS[request_id], token, text)]
       ELSE UNCHANGED << PENDING_EXTRACTS, channel >>
    /\ task' = [task EXCEPT ![Page] =
                   Finished("aihub_submit_page_text", << >>,
                            SubmitResult(PENDING_EXTRACTS, channel, request_id, token))]
    /\ UNCHANGED << APP_CONFIG, CURRENT_VIEW, CREATED_VIEWS, TAB_SITE_MAP, ACTIVE_TAB_ID,
                    LAYOUT_STATE, WEBVIEW_CREATE_IN_PROGRESS, SUMMARY_IN_PROGRESS,
                    host, uuids, contexts >>

(***************************************************************************)
(* Commands and handlers of the event loop                                 *)
(***************************************************************************)
create_tab(invoker, site_id) ==
    /\ Idle(MainThread)
    /\ uuids.tabs < MaxTabs
    /\ IF ~is_main_invoker_webview(invoker)
       THEN NotAllowed(MainThread, "create_tab", << site_id >>)
       ELSE /\ task' = [task EXCEPT ![MainThread] =
                   IF IsSome(SiteIndex(APP_CONFIG, site_id))
                   THEN [Running("create_tab", << site_id >>, "ctab_insert")
                            EXCEPT !.site_id = site_id]
                   ELSE Finished("create_tab", << site_id >>, "SiteNotFound")]
            /\ UNCHANGED << globals, channel, host, uuids, contexts >>

\* variant: the id does not depend on the uuid
ReusedTabId(n) == AuxNames[1]

\* format!("{}_{}", site_id, uuid): a fresh id
NewTabId(n) == AuxNames[n]

\* TAB_SITE_MAP.lock().unwrap().insert(tab_id.clone(), site_id);  Ok(tab_id)
ctab_insert ==
    /\ task[MainThread].pc = "ctab_insert"
    /\ LET tab_id == NewTabId(uuids.tabs + 1)
       IN  /\ uuids' = [uuids EXCEPT !.tabs = @ + 1]
           /\ TAB_SITE_MAP' = (tab_id :> task[MainThread].site_id) @@ TAB_SITE_MAP
           /\ task' = [task EXCEPT ![MainThread] =
                          FinishedWith(@.cmd, @.arg, "Ok", Some(tab_id))]
    /\ UNCHANGED << APP_CONFIG, CURRENT_VIEW, CREATED_VIEWS, ACTIVE_TAB_ID, LAYOUT_STATE,
                    WEBVIEW_CREATE_IN_PROGRESS, SUMMARY_IN_PROGRESS, PENDING_EXTRACTS,
                    channel, host, contexts >>

\* set_active_tab_id: an empty id is ignored, any other id is stored as it is
set_active_tab_id(invoker, tab_id) ==
    /\ Idle(MainThread)
    /\ IF ~is_main_invoker_webview(invoker)
       THEN NotAllowed(MainThread, "set_active_tab_id", << tab_id >>)
       ELSE /\ ACTIVE_TAB_ID' = IF tab_id = "" THEN ACTIVE_TAB_ID ELSE tab_id
            /\ task' = [task EXCEPT ![MainThread] =
                           Finished("set_active_tab_id", << tab_id >>, "Ok")]
            /\ UNCHANGED << APP_CONFIG, CURRENT_VIEW, CREATED_VIEWS, TAB_SITE_MAP,
                            LAYOUT_STATE, WEBVIEW_CREATE_IN_PROGRESS, SUMMARY_IN_PROGRESS,
                            PENDING_EXTRACTS, channel, host, uuids, contexts >>

\* LayoutMode as get_tabs_state writes it
ModeName(mode) == IF mode = "Single" THEN "single" ELSE "split"

\* the tabs of TabsStateResponse: every known tab id that resolves, with its site
TabInfos(cfg, map, views, current) ==
    LET tab_ids == views \cup DOMAIN map \cup (IF current # "" THEN {current} ELSE {})
    IN  { [tab_id |-> t, site_id |-> Unwrap(get_tab_site_id(cfg, map, t))] :
              t \in {u \in tab_ids : IsSome(get_tab_site_id(cfg, map, u))} }

\* variant: the response carries the default layout
TabsStateDefault(layout, active_tab_id, tabs) ==
    [active_tab_id |-> active_tab_id,
     mode |-> "single",
     ratio |-> RATIO_DEFAULT,
     left_tab_id |-> None,
     right_tab_id |-> None,
     tabs |-> tabs]

\* TabsStateResponse { active_tab_id, layout: { mode, ratio, left_tab_id, right_tab_id }, tabs }
TabsStateResponse(layout, active_tab_id, tabs) ==
    [active_tab_id |-> active_tab_id,
     mode |-> ModeName(layout.mode),
     ratio |-> layout.ratio,
     left_tab_id |-> layout.left_tab_id,
     right_tab_id |-> layout.right_tab_id,
     tabs |-> tabs]

get_tabs_state(invoker) ==
    /\ Idle(MainThread)
    /\ IF ~is_main_invoker_webview(invoker)
       THEN NotAllowed(MainThread, "get_tabs_state", << >>)
       ELSE /\ task' = [task EXCEPT ![MainThread] =
                   [Running("get_tabs_state", << >>, "gts_active")
                       EXCEPT !.snap_layout = LAYOUT_STATE]]
            /\ UNCHANGED << globals, channel, host, uuids, contexts >>

\* let active_tab_id = ACTIVE_TAB_ID.lock().unwrap().clone()
gts_active ==
    /\ task[MainThread].pc = "gts_active"
    /\ task' = [task EXCEPT ![MainThread].pc = "gts_tabs",
                            ![MainThread].snap_active = ACTIVE_TAB_ID]
    /\ UNCHANGED << globals, channel, host, uuids, contexts >>

\* the tab ids of CREATED_VIEWS, TAB_SITE_MAP and CURRENT_VIEW, resolved;  Ok(response)
gts_tabs ==
    /\ task[MainThread].pc = "gts_tabs"
    /\ task' = [task EXCEPT ![MainThread] =
           FinishedWith(@.cmd, @.arg, "Ok",
               Some(TabsStateResponse(@.snap_layout, @.snap_active,
                        TabInfos(APP_CONFIG, TAB_SITE_MAP, CREATED_VIEWS, CURRENT_VIEW))))]
    /\ UNCHANGED << globals, channel, host, uuids, contexts >>

resize_webviews(invoker) ==
    /\ Idle(MainThread)
    /\ IF ~is_main_invoker_webview(invoker)
       THEN NotAllowed(MainThread, "resize_webviews", << >>)
       ELSE /\ task' = [task EXCEPT ![MainThread] =
                   CallResize(Running("resize_webviews", << >>, ""), TRUE, "return")]
            /\ UNCHANGED << globals, channel, host, uuids, contexts >>

\* set_sidebar_width: the width is stored before save_config(&config)? can fail
set_sidebar_width(invoker, width, io_ok) ==
    /\ Idle(MainThread)
    /\ IF ~is_main_invoker_webview(invoker)
       THEN NotAllowed(MainThread, "set_sidebar_width", << width >>)
       ELSE /\ APP_CONFIG' = [APP_CONFIG EXCEPT !.sidebar_width = width]
            /\ task' = [task EXCEPT ![MainThread] =
                   IF io_ok
                   THEN CallResize(Running("set_sidebar_width", << width >>, ""), FALSE, "return")
                   ELSE Finished("set_sidebar_width", << width >>, "IOError")]
            /\ UNCHANGED << CURRENT_VIEW, CREATED_VIEWS, TAB_SITE_MAP, ACTIVE_TAB_ID,
                            LAYOUT_STATE, WEBVIEW_CREATE_IN_PROGRESS, SUMMARY_IN_PROGRESS,
                            PENDING_EXTRACTS, channel, host, uuids, contexts >>

\* variant: the handler never looks at the counter
CreateNeverInProgress(counter) == FALSE

\* WEBVIEW_CREATE_IN_PROGRESS.load(Ordering::SeqCst) > 0
CreateInProgress(counter) == counter > 0

\* WindowEvent::Resized: the window has the size `size` when the handler runs
on_window_resized(size) ==
    /\ Idle(MainThread)
    /\ window' = size
    /\ task' = [task EXCEPT ![MainThread] =
           IF CreateInProgress(WEBVIEW_CREATE_IN_PROGRESS)
           THEN Finished("on_window_resized", << >>, "Suppressed")
           ELSE CallResize(Running("on_window_resized", << >>, ""), FALSE, "return")]
    /\ UNCHANGED << globals, channel, webviews, uuids, contexts >>

(***************************************************************************)
(* Site teardown: clear_view_cache, update_site, remove_site               *)
(***************************************************************************)
\* variant: the main tab only
main_tab_of_site(map, site_id) == << site_id >>

\* tab_ids_for_site: the main tab id, then every auxiliary tab mapped to the site
tab_ids_for_site(map, site_id) ==
    << site_id >> \o SelectSeq(AuxNames, LAMBDA t : t \in DOMAIN map /\ map[t] = site_id)

\* the teardown loop of `cmd` over tab_ids_for_site(site_id)
StartTeardown(cmd, arg, site_id, map) ==
    [Running(cmd, arg, "td_close") EXCEPT !.site_id = site_id,
                                          !.todo = tab_ids_for_site(map, site_id)]

clear_view_cache(invoker, site_id) ==
    /\ Idle(MainThread)
    /\ IF ~is_main_invoker_webview(invoker)
       THEN NotAllowed(MainThread, "clear_view_cache", << site_id >>)
       ELSE /\ task' = [task EXCEPT ![MainThread] =
                   StartTeardown("clear_view_cache", << site_id >>, site_id, TAB_SITE_MAP)]
            /\ UNCHANGED << globals, channel, host, uuids, contexts >>

\* close_tab_webview(app, tab_id) for the next tab of the loop
td_close ==
    /\ task[MainThread].pc = "td_close"
    /\ task[MainThread].todo # << >>
    /\ LET tab_id == Head(task[MainThread].todo)
       IN  /\ webviews' = CloseWebview(webviews, tab_id)
           /\ CREATED_VIEWS' = CREATED_VIEWS \ {tab_id}
           /\ TAB_SITE_MAP' = MapRemove(TAB_SITE_MAP, tab_id)
    /\ task' = [task EXCEPT ![MainThread].todo = Tail(@)]
    /\ UNCHANGED << APP_CONFIG, CURRENT_VIEW, ACTIVE_TAB_ID, LAYOUT_STATE,
                    WEBVIEW_CREATE_IN_PROGRESS, SUMMARY_IN_PROGRESS, PENDING_EXTRACTS,
                    channel, window, uuids, contexts >>

\* whether the command resets the view state after its teardown
ViewStateHit(cmd, site_id, current, active_tab_id, cfg, map) ==
    IF cmd = "update_site"
    THEN \/ current = site_id
         \/ active_tab_id # "" /\ get_tab_site_id(cfg, map, active_tab_id) = Some(site_id)
    ELSE current = site_id

\* let current = CURRENT_VIEW.lock().unwrap().clone();  if current == site_id { .. }
td_check ==
    /\ task[MainThread].pc = "td_close"
    /\ task[MainThread].todo = << >>
    /\ task' = [task EXCEPT ![MainThread] =
           IF ViewStateHit(@.cmd, @.site_id, CURRENT_VIEW, ACTIVE_TAB_ID,
                           APP_CONFIG, TAB_SITE_MAP)
           THEN [@ EXCEPT !.pc = "td_clear_current"]
           ELSE Finished(@.cmd, @.arg, "Ok")]
    /\ UNCHANGED << globals, channel, host, uuids, contexts >>

\* *CURRENT_VIEW.lock().unwrap() = String::new()
td_clear_current ==
    /\ task[MainThread].pc = "td_clear_current"
    /\ CURRENT_VIEW' = ""
    /\ task' = [task EXCEPT ![MainThread].pc = "td_clear_active"]
    /\ UNCHANGED << APP_CONFIG, CREATED_VIEWS, TAB_SITE_MAP, ACTIVE_TAB_ID, LAYOUT_STATE,
                    WEBVIEW_CREATE_IN_PROGRESS, SUMMARY_IN_PROGRESS, PENDING_EXTRACTS,
                    channel, host, uuids, contexts >>

\* *ACTIVE_TAB_ID.lock().unwrap() = String::new();  clear_view_cache ends here
td_clear_active ==
    /\ task[MainThread].pc = "td_clear_active"
    /\ ACTIVE_TAB_ID' = ""
    /\ task' = [task EXCEPT ![MainThread] =
           IF @.cmd = "clear_view_cache" THEN Finished(@.cmd, @.arg, "Ok")
           ELSE [@ EXCEPT !.pc = "td_clear_layout"]]
    /\ UNCHANGED << APP_CONFIG, CURRENT_VIEW, CREATED_VIEWS, TAB_SITE_MAP, LAYOUT_STATE,
                    WEBVIEW_CREATE_IN_PROGRESS, SUMMARY_IN_PROGRESS, PENDING_EXTRACTS,
                    channel, host, uuids, contexts >>

\* *LAYOUT_STATE.lock().unwrap() = LayoutState::default()
td_clear_layout ==
    /\ task[MainThread].pc = "td_clear_layout"
    /\ LAYOUT_STATE' = DefaultLayout
    /\ Return(MainThread, "Ok")
    /\ UNCHANGED << APP_CONFIG, CURRENT_VIEW, CREATED_VIEWS, TAB_SITE_MAP, ACTIVE_TAB_ID,
                    WEBVIEW_CREATE_IN_PROGRESS, SUMMARY_IN_PROGRESS, PENDING_EXTRACTS,
                    channel, host, uuids, contexts >>

teardown_steps ==
    \/ td_close
    \/ td_check
    \/ td_clear_current
    \/ td_clear_active
    \/ td_clear_layout

\* the registry with the url of site_id replaced
WithUrl(cfg, site_id, url) ==
    [cfg EXCEPT !.sites = [i \in 1..Len(@) |->
        IF i = Unwrap(SiteIndex(cfg, site_id)) THEN [@[i] EXCEPT !.url = url] ELSE @[i]]]

\* update_site: the edit is stored before save_config can fail; a changed url tears
\* the site's tabs down
update_site(invoker, site_id, url, io_ok) ==
    /\ Idle(MainThread)
    /\ IF ~is_main_invoker_webview(invoker)
       THEN NotAllowed(MainThread, "update_site", << site_id, url >>)
       ELSE IF ~IsSome(SiteIndex(APP_CONFIG, site_id))
       THEN /\ task' = [task EXCEPT ![MainThread] =
                   Finished("update_site", << site_id, url >>, "SiteNotFound")]
            /\ UNCHANGED << globals, channel, host, uuids, contexts >>
       ELSE /\ APP_CONFIG' = WithUrl(APP_CONFIG, site_id, url)
            /\ task' = [task EXCEPT ![MainThread] =
                   IF ~io_ok THEN Finished("update_site", << site_id, url >>, "IOError")
                   ELSE IF APP_CONFIG.sites[Unwrap(SiteIndex(APP_CONFIG, site_id))].url = url
                   THEN Finished("update_site", << site_id, url >>, "Ok")
                   ELSE [Running("update_site", << site_id, url >>, "us_tabs")
                            EXCEPT !.site_id = site_id]]
            /\ UNCHANGED << CURRENT_VIEW, CREATED_VIEWS, TAB_SITE_MAP, ACTIVE_TAB_ID,
                            LAYOUT_STATE, WEBVIEW_CREATE_IN_PROGRESS, SUMMARY_IN_PROGRESS,
                            PENDING_EXTRACTS, channel, host, uuids, contexts >>

\* for tab_id in tab_ids_for_site(&site_id) { .. }, after the config lock is released
td_tabs ==
    /\ task[MainThread].pc \in {"us_tabs", "rm_tabs"}
    /\ task' = [task EXCEPT ![MainThread] =
           StartTeardown(@.cmd, @.arg, @.site_id, TAB_SITE_MAP)]
    /\ UNCHANGED << globals, channel, host, uuids, contexts >>

\* the registry without site_id
WithoutSite(cfg, site_id) ==
    [cfg EXCEPT !.sites = SelectSeq(@, LAMBDA s : s.id # site_id),
                !.site_order = SeqFilterOut(@, site_id),
                !.pinned_site_ids = SeqFilterOut(@, site_id),
                !.recent_site_ids = SeqFilterOut(@, site_id)]

\* remove_site: the registry is changed before save_config can fail
remove_site(invoker, site_id, io_ok) ==
    /\ Idle(MainThread)
    /\ LET idx == SiteIndex(APP_CONFIG, site_id)
           arg == << site_id >>
       IN  IF ~is_main_invoker_webview(invoker)
           THEN NotAllowed(MainThread, "remove_site", arg)
           ELSE IF ~IsSome(idx) \/ APP_CONFIG.sites[Unwrap(idx)].builtin
           THEN /\ task' = [task EXCEPT ![MainThread] =
                       Finished("remove_site", arg,
                                IF IsSome(idx) THEN "BuiltinSite" ELSE "SiteNotFound")]
                /\ UNCHANGED << globals, channel, host, uuids, contexts >>
           ELSE /\ APP_CONFIG' = WithoutSite(APP_CONFIG, site_id)
                /\ task' = [task EXCEPT ![MainThread] =
                       IF io_ok
                       THEN [Running("remove_site", arg, "rm_tabs") EXCEPT !.site_id = site_id]
                       ELSE Finished("remove_site", arg, "IOError")]
                /\ UNCHANGED << CURRENT_VIEW, CREATED_VIEWS, TAB_SITE_MAP, ACTIVE_TAB_ID,
                                LAYOUT_STATE, WEBVIEW_CREATE_IN_PROGRESS,
                                SUMMARY_IN_PROGRESS, PENDING_EXTRACTS, channel, host,
                                uuids, contexts >>

(***************************************************************************)
(* The mutexes of the statics. A command seen as the lock operations, host  *)
(* calls and suspension points its code goes through, in program order:     *)
(* task[p].ops is what is left of them, task[p].held the guards p holds.    *)
(***************************************************************************)
Mutexes == {"APP_CONFIG", "CURRENT_VIEW", "CREATED_VIEWS", "TAB_SITE_MAP", "ACTIVE_TAB_ID",
            "LAYOUT_STATE", "PENDING_EXTRACTS"}

\* X.lock().unwrap() as a temporary: the guard is dropped at the end of the statement
Use(m) == << << "use", m >> >>
\* let guard = X.lock().unwrap(), or a temporary that outlives the next lock()
Lock(m) == << << "lock", m >> >>
\* the guard goes out of scope
Unlock(m) == << << "unlock", m >> >>
\* a branch of the code: one of the sequences `alts` follows
Choose(alts) == << << "choose", alts >> >>
\* a suspension point of an async command
Await(what) == << << "await", what >> >>
\* return or `?`: every guard of the command is dropped
ReturnNow == << << "return", "" >> >>

\* get_tab_site_id; `must` when the caller returns its error with `?`
get_tab_site_id_locks(must) ==
    Use("APP_CONFIG")
    \o Choose({ << >>, Use("TAB_SITE_MAP") }
              \cup IF must THEN { Use("TAB_SITE_MAP") \o ReturnNow } ELSE {})

\* variant: the caller's guard of LAYOUT_STATE is held while the instance is created
ensure_tab_webview_locks_held ==
    Lock("LAYOUT_STATE") \o Use("APP_CONFIG") \o Use("CREATED_VIEWS")
    \o << << "incr", "" >>, << "add_child", "" >> >> \o Use("CREATED_VIEWS")
    \o << << "decr", "" >> >> \o Unlock("LAYOUT_STATE")

\* ensure_tab_webview: bounds, record check, then reuse or creation under the counter
ensure_tab_webview_locks ==
    LET create == Use("APP_CONFIG")
                  \o Choose({ ReturnNow,
                              << << "incr", "" >>, << "add_child", "" >> >>
                              \o Choose({ << << "decr", "" >> >> \o ReturnNow,
                                          Use("CREATED_VIEWS") \o << << "decr", "" >> >> }) })
    IN  Use("APP_CONFIG") \o Use("CREATED_VIEWS")
        \o Choose({ << >>, create, Use("CREATED_VIEWS") \o create })

\* resize_webviews_inner: bounds, the three snapshots, the records
resize_webviews_inner_locks ==
    Use("APP_CONFIG") \o Use("LAYOUT_STATE") \o Use("ACTIVE_TAB_ID") \o Use("CURRENT_VIEW")
    \o Use("CREATED_VIEWS")

\* switch_tab_inner and switch_view_inner after their first statement
switch_inner_locks ==
    Use("LAYOUT_STATE") \o Use("ACTIVE_TAB_ID") \o ensure_tab_webview_locks
    \o resize_webviews_inner_locks \o Use("CURRENT_VIEW") \o Use("APP_CONFIG")

switch_tab_inner_locks == get_tab_site_id_locks(TRUE) \o switch_inner_locks

switch_view_inner_locks ==
    Use("APP_CONFIG") \o Choose({ ReturnNow, switch_inner_locks })

\* set_layout; the guard of ACTIVE_TAB_ID in the `if let` of line 1343 lives through the
\* then-branch and, depending on the edition, through the else-branch
set_layout_locks ==
    LET else_branch == get_tab_site_id_locks(FALSE) \o Choose({ << >>, Use("CURRENT_VIEW") })
        current ==
            Lock("ACTIVE_TAB_ID") \o Use("APP_CONFIG")
            \o Choose({ Use("CURRENT_VIEW") \o Unlock("ACTIVE_TAB_ID"),
                        Use("TAB_SITE_MAP") \o Use("CURRENT_VIEW") \o Unlock("ACTIVE_TAB_ID"),
                        Use("TAB_SITE_MAP") \o else_branch \o Unlock("ACTIVE_TAB_ID"),
                        Use("TAB_SITE_MAP") \o Unlock("ACTIVE_TAB_ID") \o else_branch })
    IN  Choose({ Use("LAYOUT_STATE") \o resize_webviews_inner_locks,
                 Use("LAYOUT_STATE") \o get_tab_site_id_locks(TRUE)
                 \o get_tab_site_id_locks(TRUE) \o ensure_tab_webview_locks
                 \o ensure_tab_webview_locks \o Use("LAYOUT_STATE")
                 \o resize_webviews_inner_locks \o current })

\* close_tab; the guard `layout` of line 1377 is held to the end of the block
close_tab_locks ==
    get_tab_site_id_locks(FALSE) \o Use("CREATED_VIEWS") \o Use("TAB_SITE_MAP")
    \o Lock("LAYOUT_STATE")
    \o Choose({ Lock("ACTIVE_TAB_ID") \o Unlock("ACTIVE_TAB_ID") \o Unlock("LAYOUT_STATE")
                \o resize_webviews_inner_locks,
                Lock("ACTIVE_TAB_ID") \o Unlock("ACTIVE_TAB_ID")
                \o Lock("APP_CONFIG") \o Unlock("APP_CONFIG") \o Unlock("LAYOUT_STATE")
                \o Use("ACTIVE_TAB_ID") \o Use("CURRENT_VIEW")
                \o Choose({ switch_view_inner_locks, resize_webviews_inner_locks }),
                Unlock("LAYOUT_STATE")
                \o Choose({ resize_webviews_inner_locks, switch_tab_inner_locks }) })

\* summarize_active_tab past the gate; the 60 s timer can end the call at each await
summarize_active_tab_locks ==
    LET persist == Lock("APP_CONFIG") \o Unlock("APP_CONFIG")
        llm == Use("APP_CONFIG") \o Choose({ ReturnNow,
                                             Await("http") \o Choose({ ReturnNow, persist }) })
        wait == Await("rx") \o Choose({ ReturnNow, Use("PENDING_EXTRACTS") \o ReturnNow, llm })
    IN  Use("ACTIVE_TAB_ID")
        \o Choose({ << >>, Use("CURRENT_VIEW"), Use("CURRENT_VIEW") \o ReturnNow })
        \o get_tab_site_id_locks(FALSE) \o ensure_tab_webview_locks
        \o Choose({ ReturnNow, Use("PENDING_EXTRACTS") \o Choose({ ReturnNow, wait }) })

\* get_tabs_state: five snapshots, then get_tab_site_id for the tabs found
get_tabs_state_locks ==
    Use("LAYOUT_STATE") \o Use("ACTIVE_TAB_ID") \o Use("CREATED_VIEWS") \o Use("TAB_SITE_MAP")
    \o Use("CURRENT_VIEW") \o Choose({ << >>, get_tab_site_id_locks(FALSE) })

\* tab_ids_for_site, then close_tab_webview for the main tab and the auxiliary tabs found
teardown_locks ==
    LET close == Use("CREATED_VIEWS") \o Use("TAB_SITE_MAP")
    IN  Use("TAB_SITE_MAP") \o close \o Choose({ << >>, close })

\* the reset of the view state when the site was on display
reset_view_locks ==
    Choose({ << >>, Use("CURRENT_VIEW") \o Use("ACTIVE_TAB_ID") \o Use("LAYOUT_STATE") })

\* variant: `config` is not dropped before the teardown
remove_site_locks_keep_config ==
    Lock("APP_CONFIG")
    \o Choose({ ReturnNow,
                teardown_locks \o Use("CURRENT_VIEW") \o reset_view_locks
                \o Unlock("APP_CONFIG") })

\* remove_site: `config` is held from line 1735 to the drop at line 1756
remove_site_locks ==
    Lock("APP_CONFIG")
    \o Choose({ ReturnNow,
                Unlock("APP_CONFIG") \o teardown_locks \o Use("CURRENT_VIEW")
                \o reset_view_locks })

\* update_site: the registry block, then the teardown when the URL changed
update_site_locks ==
    Use("APP_CONFIG")
    \o Choose({ ReturnNow,
                teardown_locks \o Use("CURRENT_VIEW") \o Use("ACTIVE_TAB_ID")
                \o Choose({ << >>, get_tab_site_id_locks(FALSE) }) \o reset_view_locks })

\* the commands that run on the async runtime, and those that run on the main thread
AsyncCommands == {"switch_view", "switch_tab", "set_layout", "close_tab",
                  "summarize_active_tab"}
SyncCommands == {"get_tabs_state", "remove_site", "update_site", "close_requested"}
\* the commands that take a second lock while they hold one
NestingCommands == {"set_layout", "close_tab"}

LocksOf(cmd) ==
    CASE cmd = "switch_view" -> switch_view_inner_locks
      [] cmd = "switch_tab" -> switch_tab_inner_locks
      [] cmd = "set_layout" -> set_layout_locks
      [] cmd = "close_tab" -> close_tab_locks
      [] cmd = "summarize_active_tab" -> summarize_active_tab_locks
      [] cmd = "get_tabs_state" -> get_tabs_state_locks
      [] cmd = "remove_site" -> remove_site_locks
      [] cmd = "update_site" -> update_site_locks
      [] cmd = "close_requested" -> Use("CREATED_VIEWS")
      [] OTHER -> resize_webviews_inner_locks

\* the sequences `ops` can continue as once the branches at its head are taken
RECURSIVE Branches(_)
Branches(ops) ==
    IF ops = << >> THEN { << >> }
    ELSE IF Head(ops)[1] = "choose"
         THEN UNION { Branches(alt \o Tail(ops)) : alt \in Head(ops)[2] }
         ELSE { ops }

\* the command of p with `ops` left to do and `held` in hand; it has returned when
\* nothing is left
Continue(t, ops, held) ==
    IF ops = << >> THEN Finished(t.cmd, t.arg, "Ok")
    ELSE [t EXCEPT !.ops = ops, !.held = held]

\* p is called with cmd
lock_call(p, cmd) ==
    /\ Idle(p)
    /\ \E ops \in Branches(LocksOf(cmd)) :
           task' = [task EXCEPT ![p] = Continue(Running(cmd, << >>, "locks"), ops, {})]
    /\ UNCHANGED << globals, channel, host, uuids, contexts >>

\* the Resized handler on the main thread: nothing while a creation is in progress
on_window_resized_locks ==
    /\ Idle(MainThread)
    /\ task' = [task EXCEPT ![MainThread] =
           IF CreateInProgress(WEBVIEW_CREATE_IN_PROGRESS)
           THEN Finished("on_window_resized", << >>, "Suppressed")
           ELSE [Running("on_window_resized", << >>, "locks")
                     EXCEPT !.ops = resize_webviews_inner_locks]]
    /\ UNCHANGED << globals, channel, host, uuids, contexts >>

\* some task holds the mutex m
IsLocked(m) == \E q \in Procs : m \in task[q].held

\* the next operation of p; Mutex::lock waits while the mutex is locked, add_child is
\* served by the main thread, a return drops every guard
lock_step(p) ==
    /\ task[p].pc = "locks"
    /\ LET op == Head(task[p].ops)
           held == CASE op[1] = "lock" -> task[p].held \cup {op[2]}
                     [] op[1] = "unlock" -> task[p].held \ {op[2]}
                     [] OTHER -> task[p].held
       IN  /\ op[1] \in {"use", "lock"} => ~IsLocked(op[2])
           /\ op[1] = "add_child" => Idle(MainThread)
           /\ WEBVIEW_CREATE_IN_PROGRESS' =
                  CASE op[1] = "incr" -> WEBVIEW_CREATE_IN_PROGRESS + 1
                    [] op[1] = "decr" -> WEBVIEW_CREATE_IN_PROGRESS - 1
                    [] OTHER -> WEBVIEW_CREATE_IN_PROGRESS
           /\ \E ops \in Branches(IF op[1] = "return" THEN << >> ELSE Tail(task[p].ops)) :
                  task' = [task EXCEPT ![p] = Continue(@, ops, held)]
    /\ UNCHANGED << APP_CONFIG, CURRENT_VIEW, CREATED_VIEWS, TAB_SITE_MAP, ACTIVE_TAB_ID,
                    LAYOUT_STATE, SUMMARY_IN_PROGRESS, PENDING_EXTRACTS,
                    channel, host, uuids, contexts >>

(***************************************************************************)
(* Specifications                                                          *)
(***************************************************************************)
\* the tasks whose command returns in this step
Returning == {p \in Procs : task'[p].pc = "idle" /\ task'[p] # task[p]}

\* an action of the program, with the history it leaves
Do(A) ==
    /\ A
    /\ last_done' = IF Returning = {} THEN last_done ELSE CHOOSE p \in Returning : TRUE
    /\ UNCHANGED calls

\* an action of the program in a specification that keeps no history
Step(A) ==
    /\ A
    /\ UNCHANGED << last_done, calls >>

\* the start of a command, in a specification that bounds the number of commands
Start(A) ==
    /\ calls < MaxCalls
    /\ A
    /\ calls' = calls + 1
    /\ UNCHANGED last_done

AllIdle == \A p \in Procs : Idle(p)

RequestIds == 1..(MaxRequests + 1)

\* concurrent summarize_active_tab calls, the page's callbacks, set_active_tab_id
NextSummary ==
    \/ \E p \in Workers, invoker \in Invokers : Step(summarize_active_tab(p, invoker))
    \/ \E p \in Workers : Step(sum_active(p))
    \/ \E p \in Workers : Step(sum_current(p))
    \/ \E p \in Workers : Step(sum_resolve(p))
    \/ \E p \in Workers : Step(ens_bounds(p))
    \/ \E p \in Workers : Step(ens_exists(p))
    \/ \E p \in Workers : Step(ens_reuse(p))
    \/ \E p \in Workers : Step(ens_site(p))
    \/ \E p \in Workers : Step(ens_incr(p))
    \/ \E p \in Workers, host_ok \in BOOLEAN : Step(ens_add_child(p, host_ok))
    \/ \E p \in Workers : Step(ens_insert(p))
    \/ \E p \in Workers : Step(ens_guard_drop(p))
    \/ \E p \in Workers : Step(sum_get_webview(p))
    \/ \E p \in Workers : Step(sum_register(p))
    \/ \E p \in Workers, eval_ok \in BOOLEAN : Step(sum_eval(p, eval_ok))
    \/ \E p \in Workers : Step(sum_recv(p))
    \/ \E p \in Workers : Step(sum_recv_error(p))
    \/ \E p \in Workers : Step(sum_extract_timeout(p))
    \/ \E p \in Workers : Step(sum_timeout_remove(p))
    \/ \E p \in Workers : Step(sum_overall_timeout(p))
    \/ \E p \in Workers, llm_ok \in BOOLEAN : Step(sum_llm(p, llm_ok))
    \/ \E p \in Workers, io_ok \in BOOLEAN : Step(sum_project(p, io_ok))
    \/ \E p \in Workers, io_ok \in BOOLEAN : Step(sum_persist(p, io_ok))
    \/ \E p \in Workers : Step(sum_guard_drop(p))
    \/ \E invoker \in Invokers, tab_id \in {"a", GhostTab} : Step(set_active_tab_id(invoker, tab_id))
    \/ \E request_id \in RequestIds, token \in RequestIds, text \in Texts :
           Step(aihub_submit_page_text(request_id, token, text))

SpecSummary == Init /\ [][NextSummary]_vars

\* one command at a time on a worker, with window resizes arriving at any moment
NextResize ==
    \/ \E site_id \in {"a", "b"} : Step(switch_view("w1", "main", site_id))
    \/ \E mode \in {"single", "split"} :
           Step(set_layout("w1", "main", mode, None, Some("a"), Some("b")))
    \/ Step(switch_view_inner("w1"))
    \/ Step(st_layout("w1"))
    \/ Step(st_active("w1"))
    \/ Step(sw_current("w1"))
    \/ Step(sw_recent("w1"))
    \/ Step(sl_single("w1"))
    \/ Step(sl_ratio("w1"))
    \/ Step(sl_left_site("w1"))
    \/ Step(sl_right_site("w1"))
    \/ Step(sl_commit("w1"))
    \/ Step(sl_current("w1"))
    \/ Step(ens_bounds("w1"))
    \/ Step(ens_exists("w1"))
    \/ Step(ens_reuse("w1"))
    \/ Step(ens_site("w1"))
    \/ Step(ens_incr("w1"))
    \/ \E host_ok \in BOOLEAN : Step(ens_add_child("w1", host_ok))
    \/ Step(ens_insert("w1"))
    \/ Step(ens_guard_drop("w1"))
    \/ \E p \in {"w1", MainThread} : Step(rz_bounds(p))
    \/ \E p \in {"w1", MainThread} : Step(rz_layout(p))
    \/ \E p \in {"w1", MainThread} : Step(rz_active(p))
    \/ \E p \in {"w1", MainThread} : Step(rz_current(p))
    \/ \E p \in {"w1", MainThread} : Step(rz_apply(p))
    \/ \E size \in WindowSizes : Step(on_window_resized(size))

SpecResize == Init /\ [][NextResize]_vars

\* the tab ids and slot pairs the concurrent commands are called with
LayoutTabs == {"a", CustomSite}
LayoutSlots == {<< "a", CustomSite >>, << "a", "a" >>}

\* switch_view, switch_tab, set_layout and close_tab running concurrently on the workers,
\* update_site and remove_site on the event loop
NextLayout ==
    \/ \E p \in Workers : Start(switch_view(p, "main", "a"))
    \/ \E p \in Workers : Start(switch_tab(p, "main", CustomSite))
    \/ \E p \in Workers : Start(set_layout(p, "main", "single", None, None, None))
    \/ \E p \in Workers, slots \in LayoutSlots :
           Start(set_layout(p, "main", "split", None, Some(slots[1]), Some(slots[2])))
    \/ \E p \in Workers, tab_id \in LayoutTabs : Start(close_tab(p, "main", tab_id))
    \/ \E p \in Workers : Step(switch_view_inner(p))
    \/ \E p \in Workers : Step(st_resolve(p))
    \/ \E p \in Workers : Step(st_layout(p))
    \/ \E p \in Workers : Step(st_active(p))
    \/ \E p \in Workers : Step(sw_current(p))
    \/ \E p \in Workers : Step(sw_recent(p))
    \/ \E p \in Workers : Step(sl_single(p))
    \/ \E p \in Workers : Step(sl_ratio(p))
    \/ \E p \in Workers : Step(sl_left_site(p))
    \/ \E p \in Workers : Step(sl_right_site(p))
    \/ \E p \in Workers : Step(sl_commit(p))
    \/ \E p \in Workers : Step(sl_current(p))
    \/ \E p \in Workers : Step(ct_resolve(p))
    \/ \E p \in Workers : Step(ct_close(p))
    \/ \E p \in Workers : Step(ct_views(p))
    \/ \E p \in Workers : Step(ct_map(p))
    \/ \E p \in Workers : Step(ct_fallback(p))
    \/ \E p \in Workers : Step(ct_clear_active(p))
    \/ \E p \in Workers : Step(ct_clear_current(p))
    \/ \E p \in Workers : Step(ens_bounds(p))
    \/ \E p \in Workers : Step(ens_exists(p))
    \/ \E p \in Workers : Step(ens_reuse(p))
    \/ \E p \in Workers : Step(ens_drop_stale(p))
    \/ \E p \in Workers : Step(ens_site(p))
    \/ \E p \in Workers : Step(ens_incr(p))
    \/ \E p \in Workers : Step(ens_add_child(p, TRUE))
    \/ \E p \in Workers : Step(ens_insert(p))
    \/ \E p \in Workers : Step(ens_guard_drop(p))
    \/ \E p \in Workers : Step(rz_bounds(p))
    \/ \E p \in Workers : Step(rz_layout(p))
    \/ \E p \in Workers : Step(rz_active(p))
    \/ \E p \in Workers : Step(rz_current(p))
    \/ \E p \in Workers : Step(rz_apply(p))
    \/ Start(update_site("main", CustomSite, "u2", TRUE))
    \/ Start(remove_site("main", CustomSite, TRUE))
    \/ Step(td_tabs)
    \/ Step(td_close)
    \/ Step(td_check)
    \/ Step(td_clear_current)
    \/ Step(td_clear_active)
    \/ Step(td_clear_layout)

SpecLayout == Init /\ [][NextLayout]_vars

\* the start of a command when no other command is running
Solo(A) ==
    /\ AllIdle
    /\ calls < MaxCalls
    /\ A
    /\ last_done' = IF Returning = {} THEN last_done ELSE CHOOSE p \in Returning : TRUE
    /\ calls' = calls + 1

\* one command at a time: layout commands on a worker, queries and resizes on the event loop
NextSeq ==
    \/ Solo(switch_view("w1", "main", "a"))
    \/ Solo(set_layout("w1", "main", "single", None, None, None))
    \/ \E ratio \in RatioInputs, right_tab_id \in {"a", "b"} :
           Solo(set_layout("w1", "main", "split", ratio, Some("a"), Some(right_tab_id)))
    \/ Solo(close_tab("w1", "main", "a"))
    \/ Solo(get_tabs_state("main"))
    \/ Solo(resize_webviews("main"))
    \/ \E width \in SidebarWidths : Solo(set_sidebar_width("main", width, TRUE))
    \/ \E size \in WindowSizes : Solo(on_window_resized(size))
    \/ Do(switch_view_inner("w1"))
    \/ Do(st_resolve("w1"))
    \/ Do(st_layout("w1"))
    \/ Do(st_active("w1"))
    \/ Do(sw_current("w1"))
    \/ Do(sw_recent("w1"))
    \/ Do(sl_single("w1"))
    \/ Do(sl_ratio("w1"))
    \/ Do(sl_left_site("w1"))
    \/ Do(sl_right_site("w1"))
    \/ Do(sl_commit("w1"))
    \/ Do(sl_current("w1"))
    \/ Do(ct_resolve("w1"))
    \/ Do(ct_close("w1"))
    \/ Do(ct_views("w1"))
    \/ Do(ct_map("w1"))
    \/ Do(ct_fallback("w1"))
    \/ Do(ct_clear_active("w1"))
    \/ Do(ct_clear_current("w1"))
    \/ Do(ens_bounds("w1"))
    \/ Do(ens_exists("w1"))
    \/ Do(ens_reuse("w1"))
    \/ Do(ens_site("w1"))
    \/ Do(ens_incr("w1"))
    \/ \E host_ok \in BOOLEAN : Do(ens_add_child("w1", host_ok))
    \/ Do(ens_insert("w1"))
    \/ Do(ens_guard_drop("w1"))
    \/ \E p \in {"w1", MainThread} : Do(rz_bounds(p))
    \/ \E p \in {"w1", MainThread} : Do(rz_layout(p))
    \/ \E p \in {"w1", MainThread} : Do(rz_active(p))
    \/ \E p \in {"w1", MainThread} : Do(rz_current(p))
    \/ \E p \in {"w1", MainThread} : Do(rz_apply(p))
    \/ Do(gts_active)
    \/ Do(gts_tabs)

SpecSeq == Init /\ [][NextSeq]_vars

Spec == SpecSeq

\* the keys and the maps get_tab_site_id is applied to: a key may be the id of a site
ResolveKeys == {"a", CustomSite, NewTabId(1)}
ResolveMaps == UNION {[keys -> SiteIds] : keys \in SUBSET ResolveKeys}
ResolveTabs == ResolveKeys \cup {GhostTab}

\* any registry with or without the custom site, any auxiliary map over ResolveKeys
InitResolve ==
    /\ APP_CONFIG \in {DefaultConfig, WithoutSite(DefaultConfig, CustomSite)}
    /\ TAB_SITE_MAP \in ResolveMaps
    /\ InitRest

\* switch_tab on one worker, resolving each tab id against the registry and the map
NextResolve ==
    \/ \E tab_id \in ResolveTabs : Step(switch_tab("w1", "main", tab_id))
    \/ Step(st_resolve("w1"))
    \/ Step(st_layout("w1"))
    \/ Step(st_active("w1"))
    \/ Step(ens_bounds("w1"))
    \/ Step(ens_exists("w1"))
    \/ Step(ens_reuse("w1"))
    \/ Step(ens_site("w1"))
    \/ Step(ens_incr("w1"))
    \/ Step(ens_add_child("w1", TRUE))
    \/ Step(ens_insert("w1"))
    \/ Step(ens_guard_drop("w1"))
    \/ Step(rz_bounds("w1"))
    \/ Step(rz_layout("w1"))
    \/ Step(rz_active("w1"))
    \/ Step(rz_current("w1"))
    \/ Step(rz_apply("w1"))
    \/ Step(sw_current("w1"))
    \/ Step(sw_recent("w1"))

SpecResolve == InitResolve /\ [][NextResolve]_vars

\* the tab ids the commands of the surface are called with
SurfaceTabs == {"a", NewTabId(1)}

\* the command surface called by the main webview and by another one, one command at a
\* time, with the page's callbacks arriving at any moment
NextSurface ==
    \/ \E invoker \in Invokers : Solo(switch_view("w1", invoker, "a"))
    \/ \E invoker \in Invokers, site_id \in {"a", GhostTab} : Solo(create_tab(invoker, site_id))
    \/ \E invoker \in Invokers : Solo(switch_tab("w1", invoker, NewTabId(1)))
    \/ \E invoker \in Invokers, mode \in {"single", "split"} :
           Solo(set_layout("w1", invoker, mode, None, Some("a"), Some("b")))
    \/ \E invoker \in Invokers, tab_id \in SurfaceTabs : Solo(close_tab("w1", invoker, tab_id))
    \/ \E invoker \in Invokers : Solo(resize_webviews(invoker))
    \/ \E invoker \in Invokers : Solo(get_tabs_state(invoker))
    \/ \E invoker \in Invokers : Solo(summarize_active_tab("w1", invoker))
    \/ \E invoker \in Invokers, tab_id \in {"b", NewTabId(1)} :
           Solo(set_active_tab_id(invoker, tab_id))
    \/ \E request_id \in RequestIds, token \in RequestIds, text \in Texts :
           Do(aihub_submit_page_text(request_id, token, text))
    \/ Do(ctab_insert)
    \/ Do(gts_active)
    \/ Do(gts_tabs)
    \/ Do(switch_view_inner("w1"))
    \/ Do(switch_tab_inner("w1"))
    \/ Do(set_layout_steps("w1"))
    \/ Do(close_tab_steps("w1"))
    \/ Do(ens_bounds("w1"))
    \/ Do(ens_exists("w1"))
    \/ Do(ens_reuse("w1"))
    \/ Do(ens_site("w1"))
    \/ Do(ens_incr("w1"))
    \/ \E host_ok \in BOOLEAN : Do(ens_add_child("w1", host_ok))
    \/ Do(ens_insert("w1"))
    \/ Do(ens_guard_drop("w1"))
    \/ \E p \in {"w1", MainThread} : Do(resize_webviews_inner(p))
    \/ Do(summarize_steps("w1"))

SpecSurface == Init /\ [][NextSurface]_vars

\* registries load_config can return: every site in site_order once, pinned ids existing
\* and distinct
ClosePinned == { << >>, << "c" >>, << "b", "a" >> }
CloseOrders == { << "a", "b", "c" >>, << "c", "b", "a" >> }

InitClose ==
    /\ \E pinned \in ClosePinned, order \in CloseOrders :
           APP_CONFIG = [DefaultConfig EXCEPT !.pinned_site_ids = pinned,
                                              !.site_order = order]
    /\ TAB_SITE_MAP = EmptyMap
    /\ InitRest

\* closing tabs of a single and of a split layout, one command at a time, with a site
\* deleted in between and a host that may refuse to create an instance
NextClose ==
    \/ \E site_id \in {"a", "c"} : Solo(switch_view("w1", "main", site_id))
    \/ Solo(set_layout("w1", "main", "split", None, Some("a"), Some("c")))
    \/ \E tab_id \in {"a", "c"} : Solo(close_tab("w1", "main", tab_id))
    \/ Solo(remove_site("main", CustomSite, TRUE))
    \/ Do(td_tabs)
    \/ Do(teardown_steps)
    \/ Do(switch_view_inner("w1"))
    \/ Do(switch_tab_inner("w1"))
    \/ Do(set_layout_steps("w1"))
    \/ Do(close_tab_steps("w1"))
    \/ Do(ens_bounds("w1"))
    \/ Do(ens_exists("w1"))
    \/ Do(ens_reuse("w1"))
    \/ Do(ens_site("w1"))
    \/ Do(ens_incr("w1"))
    \/ \E host_ok \in BOOLEAN : Do(ens_add_child("w1", host_ok))
    \/ Do(ens_insert("w1"))
    \/ Do(ens_guard_drop("w1"))
    \/ Do(resize_webviews_inner("w1"))

SpecClose == InitClose /\ [][NextClose]_vars

\* registries whose custom site has a URL that parses or one that does not (neither
\* load_config nor update_site looks at the URL)
InitEnsure ==
    /\ \E url \in {"u1", "bad"} :
           APP_CONFIG = [DefaultConfig EXCEPT !.sites[3].url = url]
    /\ TAB_SITE_MAP = EmptyMap
    /\ InitRest

\* the callers of ensure_tab_webview, one command at a time: known and unknown sites,
\* URLs that parse or not, a host that creates the instance or refuses
NextEnsure ==
    \/ \E site_id \in {"a", CustomSite} : Solo(switch_view("w1", "main", site_id))
    \/ Solo(set_layout("w1", "main", "split", None, Some("a"), Some(CustomSite)))
    \/ Solo(set_active_tab_id("main", GhostTab))
    \/ Solo(summarize_active_tab("w1", "main"))
    \/ Do(aihub_submit_page_text(1, TokenOf(1), "T1"))
    \/ Do(switch_view_inner("w1"))
    \/ Do(switch_tab_inner("w1"))
    \/ Do(set_layout_steps("w1"))
    \/ Do(summarize_steps("w1"))
    \/ Do(ens_bounds("w1"))
    \/ Do(ens_exists("w1"))
    \/ Do(ens_reuse("w1"))
    \/ Do(ens_site("w1"))
    \/ Do(ens_incr("w1"))
    \/ \E host_ok \in BOOLEAN : Do(ens_add_child("w1", host_ok))
    \/ Do(ens_insert("w1"))
    \/ Do(ens_guard_drop("w1"))
    \/ Do(resize_webviews_inner("w1"))

SpecEnsure == InitEnsure /\ [][NextEnsure]_vars

\* the commands at the grain of their lock operations: any async command next to one that
\* nests locks and the commands and window events of the main thread, all interleaved
NextLocks ==
    \/ \E cmd \in AsyncCommands : Start(lock_call("w1", cmd))
    \/ \E cmd \in NestingCommands : Start(lock_call("w2", cmd))
    \/ \E cmd \in SyncCommands : Start(lock_call(MainThread, cmd))
    \/ Start(on_window_resized_locks)
    \/ \E p \in Workers \cup {MainThread} : Step(lock_step(p))

SpecLocks == Init /\ [][NextLocks]_vars

\* two workers that switch to a site at the same time, with a host that can fail, and
\* the Resized handler
NextCreate ==
    \/ \E p \in Workers, site_id \in {"a", CustomSite} : Start(switch_view(p, "main", site_id))
    \/ \E p \in Workers : Step(switch_view_inner(p))
    \/ \E p \in Workers : Step(st_layout(p))
    \/ \E p \in Workers : Step(st_active(p))
    \/ \E p \in Workers : Step(sw_current(p))
    \/ \E p \in Workers : Step(sw_recent(p))
    \/ \E p \in Workers : Step(ens_bounds(p))
    \/ \E p \in Workers : Step(ens_exists(p))
    \/ \E p \in Workers : Step(ens_reuse(p))
    \/ \E p \in Workers : Step(ens_site(p))
    \/ \E p \in Workers : Step(ens_incr(p))
    \/ \E p \in Workers, host_ok \in BOOLEAN : Step(ens_add_child(p, host_ok))
    \/ \E p \in Workers : Step(ens_insert(p))
    \/ \E p \in Workers : Step(ens_guard_drop(p))
    \/ \E p \in Procs : Step(resize_webviews_inner(p))
    \/ \E size \in WindowSizes : Start(on_window_resized(size))

SpecCreate == Init /\ [][NextCreate]_vars

\* the steps of summarize_active_tab that the runtime, the host and the two timers take
\* by themselves; the answer of the summarization collaborator is not among them
summarize_progress(p) ==
    \/ sum_active(p)
    \/ sum_current(p)
    \/ sum_resolve(p)
    \/ ensure_tab_webview(p)
    \/ sum_get_webview(p)
    \/ sum_register(p)
    \/ \E eval_ok \in BOOLEAN : sum_eval(p, eval_ok)
    \/ sum_recv(p)
    \/ sum_recv_error(p)
    \/ sum_extract_timeout(p)
    \/ sum_timeout_remove(p)
    \/ sum_overall_timeout(p)
    \/ \E io_ok \in BOOLEAN : sum_project(p, io_ok)
    \/ \E io_ok \in BOOLEAN : sum_persist(p, io_ok)
    \/ sum_guard_drop(p)

\* SpecSummary with a runtime that keeps polling a command that can go on and timers that
\* fire; the page's callback and the collaborator's answer may never come
SpecSummaryLive ==
    /\ SpecSummary
    /\ \A p \in Workers : WF_vars(Step(summarize_progress(p)))

\* a registry of eleven sites whose recent list is full: ten sites visited, "a" never
WideSites == << "a", "b", "c", "s4", "s5", "s6", "s7", "s8", "s9", "s10", "s11" >>

WideConfig ==
    [DefaultConfig EXCEPT
        !.sites = [i \in 1..Len(WideSites) |->
                      [id |-> WideSites[i], url |-> "u1", builtin |-> i <= 2]],
        !.site_order = WideSites,
        !.recent_site_ids = Tail(WideSites)]

InitSwitch ==
    /\ APP_CONFIG \in {DefaultConfig, WideConfig}
    /\ TAB_SITE_MAP = EmptyMap
    /\ InitRest

\* switch_view and switch_tab one command at a time, from a single and from a split layout,
\* for sites, created tabs and ids that name nothing, with a host that may refuse
NextSwitch ==
    \/ \E site_id \in {"a", "b", GhostTab} : Solo(switch_view("w1", "main", site_id))
    \/ \E tab_id \in {"a", NewTabId(1), GhostTab} : Solo(switch_tab("w1", "main", tab_id))
    \/ Solo(create_tab("main", "b"))
    \/ \E left \in {"a", GhostTab}, right \in {"b", GhostTab} :
           Solo(set_layout("w1", "main", "split", None, Some(left), Some(right)))
    \/ Do(ctab_insert)
    \/ Do(switch_view_inner("w1"))
    \/ Do(st_resolve("w1"))
    \/ Do(st_layout("w1"))
    \/ Do(st_active("w1"))
    \/ Do(sw_current("w1"))
    \/ Do(sw_recent("w1"))
    \/ Do(sl_ratio("w1"))
    \/ Do(sl_left_site("w1"))
    \/ Do(sl_right_site("w1"))
    \/ Do(sl_commit("w1"))
    \/ Do(sl_current("w1"))
    \/ Do(ens_bounds("w1"))
    \/ Do(ens_exists("w1"))
    \/ Do(ens_reuse("w1"))
    \/ Do(ens_site("w1"))
    \/ Do(ens_incr("w1"))
    \/ \E host_ok \in BOOLEAN : Do(ens_add_child("w1", host_ok))
    \/ Do(ens_insert("w1"))
    \/ Do(ens_guard_drop("w1"))
    \/ Do(rz_bounds("w1"))
    \/ Do(rz_layout("w1"))
    \/ Do(rz_active("w1"))
    \/ Do(rz_current("w1"))
    \/ Do(rz_apply("w1"))

SpecSwitch == InitSwitch /\ [][NextSwitch]_vars

\* the records ensure_tab_webview can meet: none, or the record of a tab whose instance the
\* host no longer has (an instance closed between add_child and the insertion of its record)
HealRecords == { {}, {"a"}, {"a", "b"} }

InitHeal ==
    /\ APP_CONFIG = DefaultConfig
    /\ TAB_SITE_MAP = EmptyMap
    /\ CURRENT_VIEW = ""
    /\ CREATED_VIEWS \in HealRecords
    /\ ACTIVE_TAB_ID = ""
    /\ LAYOUT_STATE = DefaultLayout
    /\ WEBVIEW_CREATE_IN_PROGRESS = 0
    /\ SUMMARY_IN_PROGRESS = FALSE
    /\ PENDING_EXTRACTS = EmptyMap
    /\ channel = EmptyMap
    /\ webviews = EmptyMap
    /\ uuids = [tabs |-> 0, requests |-> 0]
    /\ contexts = EmptyMap
    /\ task = [p \in Procs |-> Finished("", << >>, "")]
    /\ last_done = ""
    /\ calls = 0
    /\ window \in WindowSizes

\* the callers of ensure_tab_webview one at a time, over tabs with a record and an
\* instance, with a record only and with neither, and a host that may refuse
NextHeal ==
    \/ \E site_id \in {"a", "b"} : Solo(switch_view("w1", "main", site_id))
    \/ Solo(set_layout("w1", "main", "split", None, Some("a"), Some("b")))
    \/ \E size \in WindowSizes : Solo(on_window_resized(size))
    \/ Do(switch_view_inner("w1"))
    \/ Do(st_layout("w1"))
    \/ Do(st_active("w1"))
    \/ Do(sw_current("w1"))
    \/ Do(sw_recent("w1"))
    \/ Do(sl_ratio("w1"))
    \/ Do(sl_left_site("w1"))
    \/ Do(sl_right_site("w1"))
    \/ Do(sl_commit("w1"))
    \/ Do(sl_current("w1"))
    \/ Do(ens_bounds("w1"))
    \/ Do(ens_exists("w1"))
    \/ Do(ens_reuse("w1"))
    \/ Do(ens_drop_stale("w1"))
    \/ Do(ens_site("w1"))
    \/ Do(ens_incr("w1"))
    \/ \E host_ok \in BOOLEAN : Do(ens_add_child("w1", host_ok))
    \/ Do(ens_insert("w1"))
    \/ Do(ens_guard_drop("w1"))
    \/ \E p \in {"w1", MainThread} : Do(rz_bounds(p))
    \/ \E p \in {"w1", MainThread} : Do(rz_layout(p))
    \/ \E p \in {"w1", MainThread} : Do(rz_active(p))
    \/ \E p \in {"w1", MainThread} : Do(rz_current(p))
    \/ \E p \in {"w1", MainThread} : Do(rz_apply(p))

SpecHeal == InitHeal /\ [][NextHeal]_vars

\* the commands that tear a site down
TeardownCommands == {"clear_view_cache", "update_site", "remove_site"}

\* auxiliary tabs created for a builtin and for the custom site, shown alone or side by
\* side with the main tab, then cache clear, URL edit and site removal, one command at a
\* time, with a configuration file that may not be writable
NextTeardown ==
    \/ \E site_id \in {"a", CustomSite} : AllIdle /\ Do(create_tab("main", site_id))
    \/ \E left \in {"a", CustomSite} :
           Solo(set_layout("w1", "main", "split", None, Some(left), Some(NewTabId(1))))
    \/ \E tab_id \in {NewTabId(1), NewTabId(2)} : Solo(switch_tab("w1", "main", tab_id))
    \/ \E site_id \in {"a", CustomSite} : Solo(clear_view_cache("main", site_id))
    \/ \E url \in {"u1", "u2"}, io_ok \in BOOLEAN :
           Solo(update_site("main", CustomSite, url, io_ok))
    \/ \E site_id \in {"a", CustomSite}, io_ok \in BOOLEAN :
           Solo(remove_site("main", site_id, io_ok))
    \/ Do(ctab_insert)
    \/ Do(td_tabs)
    \/ Do(td_close)
    \/ Do(td_check)
    \/ Do(td_clear_current)
    \/ Do(td_clear_active)
    \/ Do(td_clear_layout)
    \/ Do(st_resolve("w1"))
    \/ Do(st_layout("w1"))
    \/ Do(st_active("w1"))
    \/ Do(sw_current("w1"))
    \/ Do(sw_recent("w1"))
    \/ Do(sl_ratio("w1"))
    \/ Do(sl_left_site("w1"))
    \/ Do(sl_right_site("w1"))
    \/ Do(sl_commit("w1"))
    \/ Do(sl_current("w1"))
    \/ Do(ens_bounds("w1"))
    \/ Do(ens_exists("w1"))
    \/ Do(ens_reuse("w1"))
    \/ Do(ens_site("w1"))
    \/ Do(ens_incr("w1"))
    \/ Do(ens_add_child("w1", TRUE))
    \/ Do(ens_insert("w1"))
    \/ Do(ens_guard_drop("w1"))
    \/ Do(rz_bounds("w1"))
    \/ Do(rz_layout("w1"))
    \/ Do(rz_active("w1"))
    \/ Do(rz_current("w1"))
    \/ Do(rz_apply("w1"))

SpecTeardown == Init /\ [][NextTeardown]_vars

(***************************************************************************)
(* Properties of the summary gate and the extraction channel               *)
(***************************************************************************)
\* the workers inside summarize_active_tab, between the gate and the drop of its guard
PastGate(tk) == {p \in Workers : tk[p].cmd = "summarize_active_tab" /\ tk[p].pc # "idle"}

\* C1: at most one summarize_active_tab call is past the gate at any time; a call made
\* by the main webview while another is in flight returns Busy at once and registers
\* no pending extraction.
C1_SingleFlight ==
    [][ /\ Cardinality(PastGate(task')) <= 1
        /\ \A p \in Workers :
               (summarize_active_tab(p, "main") /\ PastGate(task) \ {p} # {})
               => /\ task'[p].pc = "idle"
                  /\ task'[p].result = "Busy"
                  /\ PENDING_EXTRACTS' = PENDING_EXTRACTS
                  /\ channel' = channel
                  /\ uuids' = uuids ]_vars

\* one call waits for its page text while the other call was turned away
C1_Witness ==
    \E p, q \in Workers :
        /\ task[p].cmd = "summarize_active_tab" /\ task[p].pc = "sum_wait"
        /\ task[q].cmd = "summarize_active_tab" /\ task[q].result = "Busy"
        /\ DOMAIN PENDING_EXTRACTS = {task[p].request_id}

\* C2: aihub_submit_page_text with a wrong token for a request still in the table takes
\* the entry out and drops its sender without sending any text; the waiter of a dropped
\* sender does nothing but fail with the extraction failure, with no text and no timeout.
C2_TokenMismatch ==
    [][ \A request_id \in RequestIds :
          /\ \A token \in RequestIds, text \in Texts :
                 ( /\ aihub_submit_page_text(request_id, token, text)
                   /\ request_id \in DOMAIN PENDING_EXTRACTS
                   /\ token # PENDING_EXTRACTS[request_id] )
                 => /\ request_id \notin DOMAIN PENDING_EXTRACTS'
                    /\ channel'[request_id].state = "closed"
                    /\ channel'[request_id].text = ""
          /\ \A p \in Workers :
                 ( /\ task[p].pc = "sum_wait"
                   /\ task[p].request_id = request_id
                   /\ channel[request_id].state = "closed"
                   /\ task'[p] # task[p] )
                 => /\ task'[p].pc = "sum_guard_drop"
                    /\ task'[p].err = "ExtractFailed"
                    /\ task'[p].extracted = "" ]_vars

\* a call that waited when the wrong token arrived has returned the extraction failure
C2_Witness ==
    \E p \in Workers, request_id \in DOMAIN channel :
        /\ task[p].cmd = "summarize_active_tab"
        /\ task[p].result = "ExtractFailed"
        /\ channel[request_id].state = "closed"
        /\ channel[request_id].text = ""
        /\ channel[request_id].takes = 1
        /\ request_id \notin DOMAIN PENDING_EXTRACTS

\* C3: for one request id at most one aihub_submit_page_text call takes the entry out of
\* the table; a call for an id that is not in the table (consumed, timed out or never
\* issued) changes neither the table nor any channel nor any waiting call.
C3_AtMostOnce ==
    [][ /\ \A request_id \in DOMAIN channel' : channel'[request_id].takes <= 1
        /\ \A request_id \in RequestIds, token \in RequestIds, text \in Texts :
               ( /\ aihub_submit_page_text(request_id, token, text)
                 /\ request_id \notin DOMAIN PENDING_EXTRACTS )
               => /\ PENDING_EXTRACTS' = PENDING_EXTRACTS
                  /\ channel' = channel
                  /\ \A p \in Workers : task'[p] = task[p] ]_vars

\* one request was consumed by a submit, another one timed out; neither is in the table
C3_Witness ==
    \E r1, r2 \in DOMAIN channel :
        /\ channel[r1].takes = 1 /\ channel[r1].state = "sent"
        /\ channel[r2].takes = 0 /\ channel[r2].state = "closed"
        /\ DOMAIN PENDING_EXTRACTS = {}
        /\ task[Page].result = "Ok"

(***************************************************************************)
(* Properties of the window-resize handler                                 *)
(***************************************************************************)
\* the visible-set and its bounds, computed from the window and the state as they are
CurrentVisible ==
    VisibleMap(LAYOUT_STATE, ACTIVE_TAB_ID, CURRENT_VIEW,
               calculate_webview_bounds(window, APP_CONFIG.sidebar_width))

Geometry(wv) == [x |-> wv.x, y |-> wv.y, w |-> wv.w, h |-> wv.h]

C4_WitnessAfter ==
    /\ task[MainThread].cmd = "on_window_resized"
    /\ task[MainThread].result = "Ok"
    /\ Idle("w1")
    /\ WEBVIEW_CREATE_IN_PROGRESS = 0
    /\ LAYOUT_STATE.mode = "Split"
    /\ window = [w |-> Px(150), h |-> Px(120)]
    /\ \A t \in {"a", "b"} : t \in DOMAIN webviews /\ webviews[t].w = Px(100)

(***************************************************************************)
(* Properties of the layout state                                          *)
(***************************************************************************)
\* C5: in every reachable state, under any interleaving of switch_view, switch_tab,
\* set_layout, close_tab, remove_site and update_site, a Single layout has both slots
\* empty and a Split layout with both slots set has two different tab ids in them.
C5_LayoutInvariant ==
    /\ LAYOUT_STATE.mode = "Single"
       => LAYOUT_STATE.left_tab_id = None /\ LAYOUT_STATE.right_tab_id = None
    /\ ( /\ LAYOUT_STATE.mode = "Split"
         /\ IsSome(LAYOUT_STATE.left_tab_id)
         /\ IsSome(LAYOUT_STATE.right_tab_id) )
       => LAYOUT_STATE.left_tab_id # LAYOUT_STATE.right_tab_id

\* a Split layout that a close_tab is about to collapse while the site of its other slot
\* is being torn down
C5_Witness ==
    /\ LAYOUT_STATE.mode = "Split"
    /\ LAYOUT_STATE.left_tab_id = Some("a")
    /\ LAYOUT_STATE.right_tab_id = Some(CustomSite)
    /\ \E p \in Workers : task[p].cmd = "close_tab" /\ task[p].pc = "ct_fallback"
    /\ task[MainThread].cmd = "remove_site"
    /\ task[MainThread].pc = "td_close"

\* C6: set_layout("split") with the same tab id in both slots returns InvalidArgument
\* at once, leaves LAYOUT_STATE as it was and creates no webview instance or record.
C6_SplitSameTab ==
    [][ \A p \in Workers, ratio \in RatioInputs, tab_id \in SiteIds \cup AuxIds :
            set_layout(p, "main", "split", ratio, Some(tab_id), Some(tab_id))
            => /\ task'[p].pc = "idle"
               /\ task'[p].result = "InvalidArgument"
               /\ LAYOUT_STATE' = LAYOUT_STATE
               /\ webviews' = webviews
               /\ CREATED_VIEWS' = CREATED_VIEWS ]_vars

\* the call was refused while the layout was Split on two other instances
C6_Witness ==
    \E p \in Workers :
        /\ task[p].cmd = "set_layout"
        /\ task[p].arg[3] = task[p].arg[4]
        /\ task[p].result = "InvalidArgument"
        /\ LAYOUT_STATE.mode = "Split"
        /\ DOMAIN webviews = {"a", "b"}

\* the clamp of a ratio to [0.2, 0.8], in thousandths
ClampedRatio(r) == IF r < 200 THEN 200 ELSE IF r > 800 THEN 800 ELSE r

\* C7: the stored ratio starts at 0.5 and is within [0.2, 0.8] in every state; the commit
\* of set_layout("split") stores the supplied ratio clamped to that range, or keeps the
\* previous ratio when none is supplied, and no other step changes the ratio.
C7_RatioRange ==
    /\ LAYOUT_STATE.ratio = 500
    /\ [][ /\ LAYOUT_STATE'.ratio >= 200 /\ LAYOUT_STATE'.ratio <= 800
           /\ \A p \in Workers :
                  IF sl_commit(p)
                  THEN LAYOUT_STATE'.ratio =
                           IF IsSome(task[p].arg[2]) THEN ClampedRatio(Unwrap(task[p].arg[2]))
                           ELSE LAYOUT_STATE.ratio
                  ELSE (\A q \in Workers : ~sl_commit(q))
                       => LAYOUT_STATE'.ratio = LAYOUT_STATE.ratio ]_vars

\* a ratio of 0.9 was stored as 0.8 and a later call without a ratio kept it
C7_Witness ==
    /\ LAYOUT_STATE.mode = "Split"
    /\ LAYOUT_STATE.ratio = 800
    /\ task["w1"].cmd = "set_layout"
    /\ task["w1"].arg[2] = None
    /\ task["w1"].result = "Ok"

(***************************************************************************)
(* Properties of the geometry and of get_tabs_state                        *)
(***************************************************************************)
\* the commands that end with a broadcast of the geometry
BroadcastCommands ==
    {"switch_view", "set_layout", "close_tab", "resize_webviews", "set_sidebar_width",
     "on_window_resized"}

\* no command is running and the last one that returned was a successful broadcast
AfterBroadcast ==
    /\ AllIdle
    /\ last_done \in Procs
    /\ task[last_done].cmd \in BroadcastCommands
    /\ task[last_done].result = "Ok"

\* the instance of a tab that has a record, in logical pixels times 1000
Placed(tab_id, x, y, w, h) ==
    (tab_id \in CREATED_VIEWS /\ tab_id \in DOMAIN webviews)
    => Geometry(webviews[tab_id]) = [x |-> x, y |-> y, w |-> w, h |-> h]

\* C8: after a broadcast, with window W x H, sidebar width s and stored ratio r, the
\* content has origin (s, 48) and size (max(100, W - s), max(100, H - 48)); a Single
\* layout places the shown tab there; a Split layout places the left tab at (s, 48) with
\* width max(100, contentWidth * r) and the right tab at x = s + leftWidth with width
\* max(100, contentWidth - leftWidth), both with the content height.  For 1000 x 800,
\* s = 64 and r = 0.5 the panes are 468 wide and 752 high, at (64, 48) and (532, 48).
C8_Geometry ==
    AfterBroadcast =>
        LET s  == APP_CONFIG.sidebar_width
            cw == IF window.w - s > 100000 THEN window.w - s ELSE 100000
            ch == IF window.h - 48000 > 100000 THEN window.h - 48000 ELSE 100000
            r  == LAYOUT_STATE.ratio
            lw == IF (cw * r) \div 1000 > 100000 THEN (cw * r) \div 1000 ELSE 100000
            rw == IF cw - lw > 100000 THEN cw - lw ELSE 100000
            shown == IF ACTIVE_TAB_ID # "" THEN ACTIVE_TAB_ID ELSE CURRENT_VIEW
        IN  /\ LAYOUT_STATE.mode = "Single" => Placed(shown, s, 48000, cw, ch)
            /\ LAYOUT_STATE.mode = "Split"
               => /\ Placed(Unwrap(LAYOUT_STATE.left_tab_id), s, 48000, lw, ch)
                  /\ Placed(Unwrap(LAYOUT_STATE.right_tab_id), s + lw, 48000, rw, ch)
            /\ ( /\ LAYOUT_STATE.mode = "Split"
                 /\ window = [w |-> 1000000, h |-> 800000]
                 /\ s = 64000
                 /\ r = 500 )
               => /\ cw = 936000 /\ ch = 752000
                  /\ Placed(Unwrap(LAYOUT_STATE.left_tab_id), 64000, 48000, 468000, 752000)
                  /\ Placed(Unwrap(LAYOUT_STATE.right_tab_id), 532000, 48000, 468000, 752000)

\* a split at ratio 0.3 in the small window with the wide sidebar: every floor applies
C8_Witness ==
    /\ AfterBroadcast
    /\ LAYOUT_STATE.mode = "Split"
    /\ LAYOUT_STATE.ratio = 300
    /\ window = [w |-> 150000, h |-> 120000]
    /\ APP_CONFIG.sidebar_width = 180000
    /\ {"a", "b"} \subseteq CREATED_VIEWS \cap DOMAIN webviews
    /\ webviews["b"].x = 280000

\* C9: when set_layout("split", A, B, r) with A # B and r in [0.2, 0.8] has returned Ok
\* and get_tabs_state is the next command to run, its response has mode "split",
\* ratio r, left A and right B.
C9_RoundTrip ==
    [][ \A p \in Workers :
            ( /\ gts_tabs
              /\ last_done = p
              /\ task[p].cmd = "set_layout"
              /\ task[p].result = "Ok"
              /\ task[p].arg[1] = "split"
              /\ IsSome(task[p].arg[2])
              /\ Unwrap(task[p].arg[2]) >= 200
              /\ Unwrap(task[p].arg[2]) <= 800 )
            => LET response == Unwrap(task'[MainThread].value)
               IN  /\ task'[MainThread].result = "Ok"
                   /\ response.mode = "split"
                   /\ response.ratio = Unwrap(task[p].arg[2])
                   /\ response.left_tab_id = task[p].arg[3]
                   /\ response.right_tab_id = task[p].arg[4] ]_vars

\* get_tabs_state has answered right after set_layout("split", "a", "b", 0.3)
C9_Witness ==
    /\ last_done = MainThread
    /\ task[MainThread].cmd = "get_tabs_state"
    /\ task[MainThread].result = "Ok"
    /\ calls = 2
    /\ task["w1"].cmd = "set_layout"
    /\ task["w1"].arg = << "split", Some(300), Some("a"), Some("b") >>
    /\ task["w1"].result = "Ok"
    /\ Unwrap(task[MainThread].value).ratio = 300

(***************************************************************************)
(* Properties of get_tab_site_id                                           *)
(***************************************************************************)
\* the ids of the sites of the registry
RegisteredSites == {APP_CONFIG.sites[i].id : i \in DOMAIN APP_CONFIG.sites}

\* C10: a tab id that is the id of an existing site resolves to that site whatever the
\* auxiliary map holds; any other tab id resolves to its entry of the map; a tab id
\* with neither resolves to nothing and the command returns TabNotFound.
C10_Resolve ==
    \A p \in Workers :
        task[p].cmd = "switch_tab" =>
            LET tab_id == task[p].arg[1]
            IN  /\ task[p].pc \notin {"idle", "st_resolve"}
                   => /\ tab_id \in RegisteredSites => task[p].site_id = tab_id
                      /\ tab_id \notin RegisteredSites
                         => /\ tab_id \in DOMAIN TAB_SITE_MAP
                            /\ task[p].site_id = TAB_SITE_MAP[tab_id]
                /\ task[p].result = "TabNotFound"
                   <=> /\ task[p].pc = "idle"
                       /\ tab_id \notin RegisteredSites
                       /\ tab_id \notin DOMAIN TAB_SITE_MAP

\* the tab id of site "a" resolved to "a" although the map sends it to another site
C10_Witness ==
    /\ task["w1"].cmd = "switch_tab"
    /\ task["w1"].arg = << "a" >>
    /\ task["w1"].pc = "st_layout"
    /\ task["w1"].site_id = "a"
    /\ "a" \in DOMAIN TAB_SITE_MAP
    /\ TAB_SITE_MAP["a"] = "b"

(***************************************************************************)
(* Properties of the command surface                                       *)
(***************************************************************************)
\* C11: create_tab for an existing site returns an id that no earlier tab has and that
\* is no site id, keeps the entries of the earlier tabs, and the new id resolves to the
\* site; create_tab for an unknown site returns SiteNotFound and adds no entry.
C11_CreateTab ==
    [][ /\ ctab_insert
           => LET tab_id == Unwrap(task'[MainThread].value)
                  site_id == task[MainThread].arg[1]
              IN  /\ task'[MainThread].result = "Ok"
                  /\ tab_id \notin DOMAIN TAB_SITE_MAP
                  /\ tab_id \notin RegisteredSites
                  /\ site_id \in RegisteredSites
                  /\ \A t \in DOMAIN TAB_SITE_MAP :
                         /\ t \in DOMAIN TAB_SITE_MAP'
                         /\ TAB_SITE_MAP'[t] = TAB_SITE_MAP[t]
                  /\ get_tab_site_id(APP_CONFIG', TAB_SITE_MAP', tab_id) = Some(site_id)
        /\ \A site_id \in {"a", GhostTab} :
               (create_tab("main", site_id) /\ site_id \notin RegisteredSites)
               => /\ task'[MainThread].result = "SiteNotFound"
                  /\ task'[MainThread].pc = "idle"
                  /\ TAB_SITE_MAP' = TAB_SITE_MAP
      ]_vars

\* create_tab("a") has returned twice: two ids, both resolving to "a"
C11_Witness ==
    /\ task[MainThread].cmd = "create_tab"
    /\ task[MainThread].result = "Ok"
    /\ task[MainThread].value = Some(NewTabId(2))
    /\ NewTabId(1) # NewTabId(2)
    /\ get_tab_site_id(APP_CONFIG, TAB_SITE_MAP, NewTabId(1)) = Some("a")
    /\ get_tab_site_id(APP_CONFIG, TAB_SITE_MAP, NewTabId(2)) = Some("a")

\* r is the first id of seq that is a registered site other than closed
IsFirstIn(seq, r, closed) ==
    \E i \in 1..Len(seq) :
        /\ seq[i] = r
        /\ r \in RegisteredSites \ {closed}
        /\ \A j \in 1..(i - 1) : seq[j] \notin RegisteredSites \ {closed}

\* some id of seq is a registered site other than closed
HasOther(seq, closed) == \E i \in 1..Len(seq) : seq[i] \in RegisteredSites \ {closed}

C13_CloseSplitSlot ==
    [][ \A p \in Workers :
          /\ (ct_fallback(p) /\ LAYOUT_STATE.mode = "Split"
                             /\ Some(task[p].tab_id) \in {LAYOUT_STATE.left_tab_id,
                                                          LAYOUT_STATE.right_tab_id})
             => /\ LAYOUT_STATE'.mode = "Single"
                /\ LAYOUT_STATE'.left_tab_id = None
                /\ LAYOUT_STATE'.right_tab_id = None
                /\ \A other \in { LAYOUT_STATE.left_tab_id, LAYOUT_STATE.right_tab_id }
                                  \ { None, Some(task[p].tab_id) } :
                       task'[p].fallback = << "SwitchToTab", Unwrap(other) >>
          /\ (task[p].cmd = "close_tab" /\ task[p].pc # "idle" /\ task'[p].pc = "idle"
                                        /\ task[p].fallback # << >>
                                        /\ task[p].fallback[1] = "SwitchToTab")
             => LET tab == task[p].fallback[2]
                    site == get_tab_site_id(APP_CONFIG', TAB_SITE_MAP', tab)
                IN  /\ LAYOUT_STATE'.mode = "Single"
                    /\ ACTIVE_TAB_ID' = tab
                    /\ tab \in CREATED_VIEWS'
                    /\ tab \in DOMAIN webviews'
                    /\ webviews'[tab].shown
                    /\ IsSome(site)
                    /\ CURRENT_VIEW' = Unwrap(site)
      ]_vars

\* the tabs with a record that resolve to site_id
RecordedTabsOf(site_id) ==
    {t \in CREATED_VIEWS : get_tab_site_id(APP_CONFIG, TAB_SITE_MAP, t) = Some(site_id)}

\* the auxiliary tabs mapped to site_id
AuxTabsOf(site_id) == {t \in DOMAIN TAB_SITE_MAP : TAB_SITE_MAP[t] = site_id}

\* C14 as stated: once close_tab has removed the record and the entry of its tab, and
\* that record was the last one of a tab of the site, no auxiliary entry of the site is
\* left in TAB_SITE_MAP.
C14_AsStated ==
    \A p \in Workers :
        (/\ task[p].cmd = "close_tab"
         /\ task[p].pc = "ct_fallback"
         /\ task[p].removed
         /\ RecordedTabsOf(task[p].site_id) \ {task[p].tab_id} = {})
        => AuxTabsOf(task[p].site_id) = {}

\* C14: close_tab(t) takes out of CREATED_VIEWS the record of t only and out of
\* TAB_SITE_MAP the entry of t only; the entries of the other auxiliary tabs, those of
\* the closed tab's site included, stay as they are in every step of the command.
C14_OwnEntryOnly ==
    [][ \A p \in Workers :
          (task[p].cmd = "close_tab" /\ task[p].pc # "idle" /\ task'[p] # task[p])
          => /\ ct_views(p) => CREATED_VIEWS' = CREATED_VIEWS \ {task[p].tab_id}
             /\ ct_map(p)
                => /\ DOMAIN TAB_SITE_MAP' = DOMAIN TAB_SITE_MAP \ {task[p].tab_id}
                   /\ \A t \in DOMAIN TAB_SITE_MAP' : TAB_SITE_MAP'[t] = TAB_SITE_MAP[t]
             /\ ~ct_map(p) => TAB_SITE_MAP' = TAB_SITE_MAP
             /\ \A t \in AuxTabsOf(task[p].site_id) \ {task[p].tab_id} :
                    /\ t \in DOMAIN TAB_SITE_MAP'
                    /\ TAB_SITE_MAP'[t] = TAB_SITE_MAP[t]
      ]_vars

\* the main tab of "a" held the last record of the site and is closed; the auxiliary
\* tab created for "a" is still in the map
C14_Witness ==
    /\ task["w1"].cmd = "close_tab"
    /\ task["w1"].arg = << "a" >>
    /\ task["w1"].pc = "ct_fallback"
    /\ task["w1"].removed
    /\ RecordedTabsOf("a") = {}
    /\ NewTabId(1) \in DOMAIN TAB_SITE_MAP
    /\ TAB_SITE_MAP[NewTabId(1)] = "a"

\* every static, the host, the counters and the project store are as before
SharedUnchanged ==
    UNCHANGED << APP_CONFIG, CURRENT_VIEW, CREATED_VIEWS, TAB_SITE_MAP, ACTIVE_TAB_ID,
                 LAYOUT_STATE, WEBVIEW_CREATE_IN_PROGRESS, SUMMARY_IN_PROGRESS,
                 PENDING_EXTRACTS, channel, webviews, window, uuids, contexts >>

\* the command started by step A on task p returns NotAllowed at once and changes nothing
Refused(A, p) ==
    A => /\ task'[p].pc = "idle"
         /\ task'[p].result = "NotAllowed"
         /\ SharedUnchanged

\* a webview other than the main one
Untrusted == Invokers \ {"main"}

\* the eight commands of the surface that take the calling webview
GuardedRefused ==
    \A invoker \in Untrusted :
        /\ Refused(switch_view("w1", invoker, "a"), "w1")
        /\ \A site_id \in {"a", GhostTab} : Refused(create_tab(invoker, site_id), MainThread)
        /\ Refused(switch_tab("w1", invoker, NewTabId(1)), "w1")
        /\ \A mode \in {"single", "split"} :
               Refused(set_layout("w1", invoker, mode, None, Some("a"), Some("b")), "w1")
        /\ \A tab_id \in SurfaceTabs : Refused(close_tab("w1", invoker, tab_id), "w1")
        /\ Refused(resize_webviews(invoker), MainThread)
        /\ Refused(get_tabs_state(invoker), MainThread)
        /\ Refused(summarize_active_tab("w1", invoker), "w1")

\* C15 as stated: the eight commands and also aihub_submit_page_text, which the page of
\* an embedded webview calls, return NotAllowed to a caller other than the main webview
\* and change no shared state.
C15_AsStated ==
    [][ /\ GuardedRefused
        /\ \A request_id \in RequestIds, token \in RequestIds, text \in Texts :
               Refused(aihub_submit_page_text(request_id, token, text), Page)
      ]_vars

\* C15: switch_view, create_tab, switch_tab, set_layout, close_tab, resize_webviews,
\* get_tabs_state and summarize_active_tab called by a webview other than the main one
\* return NotAllowed in their first step and change no shared state.
C15_NotAllowed == [][GuardedRefused]_vars

\* close_tab by another webview was refused while the tab it names is shown
C15_Witness ==
    /\ task["w1"].cmd = "close_tab"
    /\ task["w1"].arg = << "a" >>
    /\ task["w1"].result = "NotAllowed"
    /\ last_done = "w1"
    /\ ACTIVE_TAB_ID = "a"
    /\ "a" \in CREATED_VIEWS
    /\ webviews["a"].shown

\* C16: aihub_submit_page_text returns Ok for every request id, token and text: when the
\* request id is not pending (never issued, consumed or timed out), when the token is
\* not the registered one and when the receiver of the channel is gone.
C16_CallbackOk ==
    [][ \A request_id \in RequestIds, token \in RequestIds, text \in Texts :
            aihub_submit_page_text(request_id, token, text)
            => /\ task'[Page].pc = "idle"
               /\ task'[Page].cmd = "aihub_submit_page_text"
               /\ task'[Page].result = "Ok"
      ]_vars

\* the waiter gave up at the 20 s timeout, then a submit took its entry and got Ok
C16_Witness ==
    /\ task[Page].cmd = "aihub_submit_page_text"
    /\ task[Page].result = "Ok"
    /\ \E p \in Workers :
           /\ task[p].pc = "sum_timeout_remove"
           /\ task[p].request_id \notin DOMAIN PENDING_EXTRACTS
           /\ channel[task[p].request_id].takes = 1
           /\ ~channel[task[p].request_id].rx_alive

\* C17: a step of summarize_active_tab changes the project store or the active project
\* only on the way to an Ok return, so a call that fails leaves both as they were; and a
\* call that returns Ok(summary) has that summary stored in the active project.
C17_NoPartialPersistence ==
    [][ \A p \in Workers :
          (task[p].cmd = "summarize_active_tab" /\ task[p].pc # "idle" /\ task'[p] # task[p])
          => /\ (contexts' # contexts
                 \/ APP_CONFIG'.active_project_id # APP_CONFIG.active_project_id)
                => /\ task'[p].pc \in {"sum_persist", "sum_guard_drop"}
                   /\ task'[p].err = ""
             /\ (task'[p].pc = "idle" /\ task'[p].result = "Ok")
                => /\ APP_CONFIG'.active_project_id \in DOMAIN contexts'
                   /\ Some(contexts'[APP_CONFIG'.active_project_id].summary) = task'[p].value
      ]_vars

\* C18: when the 20 s wait for the text of a request ends with no submit, the call goes
\* on to return ExtractTimeout and nothing else; from the removal of the timeout branch
\* on, and when the call returns, PENDING_EXTRACTS has no entry for the request id, and
\* no later step enters that id again.
C18_ExtractTimeout ==
    [][ /\ \A p \in Workers :
              /\ sum_extract_timeout(p) => task'[p].pc = "sum_timeout_remove"
              /\ (task[p].pc = "sum_timeout_remove" /\ task'[p] # task[p])
                 => /\ task'[p].pc = "sum_guard_drop"
                    /\ task'[p].err = "ExtractTimeout"
                    /\ task[p].request_id \notin DOMAIN PENDING_EXTRACTS'
              /\ (task[p].pc = "sum_guard_drop" /\ task[p].err = "ExtractTimeout"
                                                /\ task'[p] # task[p])
                 => /\ task'[p].pc = "idle"
                    /\ task'[p].result = "ExtractTimeout"
                    /\ task[p].request_id \notin DOMAIN PENDING_EXTRACTS'
        /\ \A request_id \in DOMAIN PENDING_EXTRACTS' \ DOMAIN PENDING_EXTRACTS :
               request_id = uuids.requests + 1
      ]_vars

\* the only request issued so far timed out: no submit took its entry, the call has
\* returned ExtractTimeout and the table is empty
C18_Witness ==
    /\ uuids.requests = 1
    /\ channel[1].takes = 0
    /\ PENDING_EXTRACTS = EmptyMap
    /\ \E p \in Workers :
           /\ task[p].cmd = "summarize_active_tab"
           /\ task[p].pc = "idle"
           /\ task[p].result = "ExtractTimeout"

\* C19: whenever no command is running, CURRENT_VIEW is the site ACTIVE_TAB_ID resolves
\* to when ACTIVE_TAB_ID is not empty, and is empty when ACTIVE_TAB_ID is empty.
C19_CurrentFollowsActive ==
    AllIdle
    => /\ ACTIVE_TAB_ID # ""
          => get_tab_site_id(APP_CONFIG, TAB_SITE_MAP, ACTIVE_TAB_ID) = Some(CURRENT_VIEW)
       /\ ACTIVE_TAB_ID = "" => CURRENT_VIEW = ""

\* the errors ensure_tab_webview returns
EnsureErrors == {"SiteNotFound", "UrlParseFailed", "CreationFailed"}

\* ensure_tab_webview of task p returns an error in this step
EnsureFails(p) ==
    /\ task[p].pc \in {"ens_site", "ens_guard_drop"}
    /\ task'[p] # task[p]
    /\ \/ task'[p].pc = "idle" /\ task'[p].result \in EnsureErrors
       \/ task'[p].pc = "sum_guard_drop" /\ task'[p].err \in EnsureErrors

\* C20: when ensure_tab_webview returns an error (site unknown, URL not parsable, host
\* refused the instance) CREATED_VIEWS has no record for its tab_id; and a record enters
\* CREATED_VIEWS only in the insert step of a call, which a call reaches only from the
\* add_child that created the instance of its tab.
C20_NoRecordOnFailure ==
    [][ /\ \A p \in Workers :
          /\ EnsureFails(p) => task[p].tab_id \notin CREATED_VIEWS'
          /\ (task[p].pc \in {"ens_site", "ens_guard_drop"} /\ task'[p] # task[p]
                /\ task'[p].pc = "idle" /\ task[p].cmd # "summarize_active_tab")
             => task'[p].result \in EnsureErrors
        /\ \A t \in CREATED_VIEWS' \ CREATED_VIEWS :
               \E p \in Workers : /\ task[p].pc = "ens_insert"
                                  /\ task'[p].pc # "ens_insert"
                                  /\ t = task[p].tab_id
        /\ \A p \in Workers :
               (task'[p].pc = "ens_insert" /\ task[p].pc # "ens_insert")
               => /\ task[p].pc = "ens_add_child"
                  /\ task[p].tab_id \notin DOMAIN webviews
                  /\ task[p].tab_id \in DOMAIN webviews'
      ]_vars

\* set_layout failed on the URL of the right tab: the left tab has its record, the
\* right tab has none
C20_Witness ==
    /\ task["w1"].cmd = "set_layout"
    /\ task["w1"].pc = "idle"
    /\ task["w1"].result = "UrlParseFailed"
    /\ "a" \in CREATED_VIEWS
    /\ CustomSite \notin CREATED_VIEWS
    /\ CustomSite \notin DOMAIN webviews

(***************************************************************************)
(* Properties of locks, guards and the commands that switch the display    *)
(***************************************************************************)
\* p runs close_tab for a tab that had no instance, no record and no TAB_SITE_MAP entry
ClosesNothing(p) ==
    /\ task[p].cmd = "close_tab"
    /\ task[p].pc \notin {"idle", "ct_resolve", "ct_close", "ct_views", "ct_map"}
    /\ ~task[p].had_webview
    /\ ~task[p].removed
    /\ ~task[p].had_entry

\* C21: close_tab of a tab that has no instance, no record and no TAB_SITE_MAP entry
\* changes no record, no TAB_SITE_MAP entry and none of LAYOUT_STATE, ACTIVE_TAB_ID and
\* CURRENT_VIEW, so that closing a tab twice leaves the state of closing it once.
C21_CloseIdempotent ==
    [][ (\E p \in Workers : ClosesNothing(p))
        => UNCHANGED << CREATED_VIEWS, TAB_SITE_MAP, LAYOUT_STATE, ACTIVE_TAB_ID,
                        CURRENT_VIEW >> ]_vars

\* p waits for q: for a mutex q holds, or for the main thread to serve its add_child
WaitsFor(p, q) ==
    /\ task[p].pc = "locks"
    /\ LET op == Head(task[p].ops)
       IN  \/ op[1] \in {"use", "lock"} /\ op[2] \in task[q].held
           \/ op[1] = "add_child" /\ q = MainThread /\ p # q /\ ~Idle(q)

\* p is inside the host's instance creation
InAddChild(p) == task[p].pc = "locks" /\ Head(task[p].ops)[1] = "add_child"

\* C22: in no reachable state of the interleaved commands and window events do one, two or
\* three tasks wait in a cycle, each for a lock held by (or a host call served by) the
\* next, and a task inside add_child holds no lock, so that a Resized handler raised
\* meanwhile waits for none of its locks.
C22_NoDeadlock ==
    /\ \A p \in Procs :
           /\ ~WaitsFor(p, p)
           /\ \A q \in Procs :
                  WaitsFor(p, q)
                  => /\ ~WaitsFor(q, p)
                     /\ \A r \in Procs : ~(WaitsFor(q, r) /\ WaitsFor(r, p))
    /\ \A p \in Workers : InAddChild(p) => ~WaitsFor(MainThread, p) /\ task[p].held = {}

\* the main thread's handler waits for ACTIVE_TAB_ID, held by set_layout, which waits for
\* APP_CONFIG, held by close_tab under its LAYOUT_STATE guard: a chain, not a cycle
C22_Witness ==
    /\ task["w1"].cmd = "close_tab"
    /\ task["w1"].held = {"LAYOUT_STATE", "APP_CONFIG"}
    /\ task["w2"].cmd = "set_layout"
    /\ task["w2"].held = {"ACTIVE_TAB_ID"}
    /\ WaitsFor("w2", "w1")
    /\ WaitsFor(MainThread, "w2")

\* a Resized event arrived while an instance was being created and returned at once
C22_WitnessResized ==
    /\ \E p \in Workers : InAddChild(p)
    /\ task[MainThread].cmd = "on_window_resized"
    /\ task[MainThread].result = "Suppressed"
    /\ Idle(MainThread)

\* the mutex the next operation of p locks, if it locks one
Takes(p) ==
    IF task[p].pc = "locks" /\ Head(task[p].ops)[1] \in {"use", "lock"}
    THEN Some(Head(task[p].ops)[2]) ELSE None

\* p is at a suspension point: inside add_child or at an await
Suspended(p) == task[p].pc = "locks" /\ Head(task[p].ops)[1] \in {"add_child", "await"}

\* C23 as stated: no command locks a mutex while it holds another, and none holds a mutex
\* at a suspension point.
C23_AsStated ==
    \A p \in Procs :
        /\ IsSome(Takes(p)) => task[p].held = {}
        /\ Suspended(p) => task[p].held = {}

\* C23: a command locks a mutex while it holds another only in close_tab, which takes
\* ACTIVE_TAB_ID and then APP_CONFIG under its LAYOUT_STATE guard, and in set_layout, which
\* takes APP_CONFIG, TAB_SITE_MAP and CURRENT_VIEW under its ACTIVE_TAB_ID guard; no
\* command holds more than two mutexes and none holds a mutex at a suspension point.
C23_LockDiscipline ==
    \A p \in Procs :
        /\ Cardinality(task[p].held) <= 2
        /\ (IsSome(Takes(p)) /\ task[p].held # {})
           => \/ /\ task[p].cmd = "close_tab"
                 /\ task[p].held = {"LAYOUT_STATE"}
                 /\ Unwrap(Takes(p)) \in {"ACTIVE_TAB_ID", "APP_CONFIG"}
              \/ /\ task[p].cmd = "set_layout"
                 /\ task[p].held = {"ACTIVE_TAB_ID"}
                 /\ Unwrap(Takes(p)) \in {"APP_CONFIG", "TAB_SITE_MAP", "CURRENT_VIEW"}
        /\ Cardinality(task[p].held) = 2
           => task[p].held \in {{"LAYOUT_STATE", "ACTIVE_TAB_ID"}, {"LAYOUT_STATE", "APP_CONFIG"}}
        /\ Suspended(p) => task[p].held = {}

\* set_layout takes CURRENT_VIEW under its ACTIVE_TAB_ID guard while the other command is
\* inside add_child with no guard in hand
C23_Witness ==
    /\ task["w2"].cmd = "set_layout"
    /\ task["w2"].held = {"ACTIVE_TAB_ID"}
    /\ Takes("w2") = Some("CURRENT_VIEW")
    /\ InAddChild("w1")
    /\ task["w1"].held = {}

\* the tasks between the fetch_add of ensure_tab_webview and the drop of its guard: in
\* add_child, or past it with the record insert or the guard drop still to do
Creating == {p \in Procs : task[p].pc \in {"ens_add_child", "ens_insert", "ens_guard_drop"}}

\* C24: WEBVIEW_CREATE_IN_PROGRESS is the number of ensure_tab_webview calls between
\* their increment and the drop of their guard, hence never negative and zero when no
\* creation is in progress; it goes up by one exactly in the step before add_child and
\* down by one exactly when a call leaves the creation, once, after success and after
\* error alike.
C24_CounterCountsCreations ==
    [][ /\ WEBVIEW_CREATE_IN_PROGRESS' = Cardinality(Creating')
        /\ WEBVIEW_CREATE_IN_PROGRESS' >= 0
        /\ \A p \in Procs :
               /\ (p \notin Creating /\ p \in Creating')
                  => /\ ens_incr(p)
                     /\ task'[p].pc = "ens_add_child"
                     /\ WEBVIEW_CREATE_IN_PROGRESS' = WEBVIEW_CREATE_IN_PROGRESS + 1
               /\ (p \in Creating /\ p \notin Creating')
                  => /\ task[p].pc = "ens_guard_drop"
                     /\ WEBVIEW_CREATE_IN_PROGRESS' = WEBVIEW_CREATE_IN_PROGRESS - 1
               /\ (task[p].pc = "ens_add_child" /\ task'[p].pc # "ens_add_child")
                  => \/ task'[p].pc = "ens_insert" /\ task'[p].err = ""
                     \/ task'[p].pc = "ens_guard_drop" /\ task'[p].err = "CreationFailed"
      ]_vars

\* two creations at once: the host refused the second instance of the label, the first
\* call has still to insert its record
C24_Witness ==
    /\ WEBVIEW_CREATE_IN_PROGRESS = 2
    /\ task["w1"].pc = "ens_guard_drop"
    /\ task["w1"].err = "CreationFailed"
    /\ task["w2"].pc = "ens_insert"

\* C25: whenever no summarize_active_tab call is past the gate SUMMARY_IN_PROGRESS is
\* false: every return of a call that passed the gate, with a summary or with any error,
\* leaves the flag false, and a call by the main webview started while none is in flight
\* passes the gate instead of returning Busy.
C25_GateReleased ==
    [][ /\ PastGate(task') = {} => ~SUMMARY_IN_PROGRESS'
        /\ \A p \in Workers :
               /\ (p \in PastGate(task) /\ p \notin PastGate(task'))
                  => /\ ~SUMMARY_IN_PROGRESS'
                     /\ task'[p].result # "Busy"
               /\ (summarize_active_tab(p, "main") /\ PastGate(task) = {})
                  => /\ p \in PastGate(task')
                     /\ SUMMARY_IN_PROGRESS'
      ]_vars

\* the call before ended by the 60 s timer, and the next call is past the gate
C25_Witness ==
    /\ task["w1"].cmd = "summarize_active_tab"
    /\ task["w1"].pc = "idle"
    /\ task["w1"].result = "SummaryTimeout"
    /\ task["w2"].cmd = "summarize_active_tab"
    /\ task["w2"].pc = "sum_wait"
    /\ SUMMARY_IN_PROGRESS

\* C26: every summarize_active_tab call that passed the gate returns in the end, whether
\* or not the page submits a text and whether or not the collaborator answers.
C26_EventuallyReturns ==
    \A p \in Workers :
        (task[p].cmd = "summarize_active_tab" /\ task[p].pc # "idle") ~> task[p].pc = "idle"

\* the page submitted its text, the collaborator never answered, the 60 s timer ended the
\* call
C26_Witness ==
    /\ task["w1"].cmd = "summarize_active_tab"
    /\ task["w1"].pc = "idle"
    /\ task["w1"].result = "SummaryTimeout"
    /\ 1 \in DOMAIN channel
    /\ channel[1].state = "sent"

\* C27: a channel comes to hold a text only by an aihub_submit_page_text call that names
\* the request, carries the token registered for it and carries that very text; a call
\* whose token differs puts no text into any channel; a waiting summarize_active_tab takes
\* as its extracted text nothing but the text its own channel holds.
C27_DeliveryNeedsToken ==
    [][ /\ \A request_id \in DOMAIN channel' :
               ( \/ request_id \notin DOMAIN channel
                 \/ channel'[request_id].text # channel[request_id].text
                 \/ ( /\ channel'[request_id].state = "sent"
                      /\ channel[request_id].state # "sent" ) )
               => \/ /\ request_id \notin DOMAIN channel
                     /\ channel'[request_id].state = "open"
                     /\ channel'[request_id].text = ""
                  \/ /\ request_id \in DOMAIN PENDING_EXTRACTS
                     /\ \E text \in Texts :
                            /\ aihub_submit_page_text(request_id, TokenOf(request_id), text)
                            /\ PENDING_EXTRACTS[request_id] = TokenOf(request_id)
                            /\ channel'[request_id].text = text
        /\ \A request_id \in RequestIds, token \in RequestIds, text \in Texts :
               ( /\ request_id \in DOMAIN PENDING_EXTRACTS
                 /\ token # PENDING_EXTRACTS[request_id]
                 /\ aihub_submit_page_text(request_id, token, text) )
               => /\ \A r \in DOMAIN channel :
                         /\ channel'[r].text = channel[r].text
                         /\ channel'[r].state # "sent" \/ channel[r].state = "sent"
                  /\ \A p \in Workers : task'[p].extracted = task[p].extracted
        /\ \A p \in Workers :
               task'[p].extracted \notin {"", task[p].extracted}
               => /\ task[p].pc = "sum_wait"
                  /\ channel[task[p].request_id].state = "sent"
                  /\ channel[task[p].request_id].takes = 1
                  /\ task'[p].extracted = channel[task[p].request_id].text ]_vars

\* a waiter holds the text of its own request while an earlier request was closed by a
\* submit with a wrong token and kept no text
C27_Witness ==
    \E p \in Workers, r \in DOMAIN channel :
        /\ task[p].pc = "sum_llm"
        /\ task[p].extracted # ""
        /\ r # task[p].request_id
        /\ channel[task[p].request_id].text = task[p].extracted
        /\ channel[r].state = "closed"
        /\ channel[r].takes = 1
        /\ channel[r].text = ""

SwitchCommands == {"switch_tab", "switch_view"}

\* the last command that returned was a switch_tab or switch_view of w1, and nothing runs
SwitchEnded(result) ==
    /\ AllIdle
    /\ last_done = "w1"
    /\ task["w1"].cmd \in SwitchCommands
    /\ task["w1"].result = result

NoDuplicates(s) == \A i, j \in 1..Len(s) : s[i] = s[j] => i = j

\* C28: a switch_tab(t) or switch_view(t) that ran alone and returned Ok leaves the mode
\* Single with both slots empty, ACTIVE_TAB_ID = t, CURRENT_VIEW = the site t resolves to,
\* t in CREATED_VIEWS, and that site first in a recent list of distinct ids, ten at most;
\* a switch_tab of a tab that resolves to nothing and a switch_view of an unknown site
\* return the not-found error at their first statement, and no step of such a call
\* changes any state.
C28_Switch ==
    /\ [](SwitchEnded("Ok") =>
            LET t == task["w1"].arg[1]
                site == get_tab_site_id(APP_CONFIG, TAB_SITE_MAP, t)
            IN  /\ LAYOUT_STATE.mode = "Single"
                /\ LAYOUT_STATE.left_tab_id = None
                /\ LAYOUT_STATE.right_tab_id = None
                /\ ACTIVE_TAB_ID = t
                /\ IsSome(site)
                /\ CURRENT_VIEW = Unwrap(site)
                /\ t \in CREATED_VIEWS
                /\ t \in DOMAIN webviews
                /\ APP_CONFIG.recent_site_ids # << >>
                /\ Head(APP_CONFIG.recent_site_ids) = Unwrap(site)
                /\ NoDuplicates(APP_CONFIG.recent_site_ids)
                /\ Len(APP_CONFIG.recent_site_ids) <= 10)
    /\ [][ /\ ( /\ task["w1"].pc = "st_resolve"
                /\ ~IsSome(get_tab_site_id(APP_CONFIG, TAB_SITE_MAP, task["w1"].tab_id)) )
              => task'["w1"].pc = "idle" /\ task'["w1"].result = "TabNotFound"
           /\ ( /\ task["w1"].pc = "sv_site"
                /\ ~IsSome(SiteIndex(APP_CONFIG, task["w1"].site_id)) )
              => task'["w1"].pc = "idle" /\ task'["w1"].result = "SiteNotFound"
           /\ ( /\ task'["w1"].cmd \in SwitchCommands
                /\ task'["w1"].pc \in {"st_resolve", "sv_site"} )
              => UNCHANGED << globals, host, channel, uuids, contexts >>
           /\ ( /\ task'["w1"].cmd \in SwitchCommands
                /\ task'["w1"].result \in {"TabNotFound", "SiteNotFound"}
                /\ task["w1"].pc # "idle" )
              => /\ task["w1"].pc \in {"st_resolve", "sv_site"}
                 /\ UNCHANGED << globals, host, channel, uuids, contexts >>
         ]_vars

\* switch_view of the eleventh site returned Ok with the recent list full: the site is
\* first and the oldest entry is gone
C28_Witness ==
    /\ SwitchEnded("Ok")
    /\ task["w1"].arg = << "a" >>
    /\ Len(APP_CONFIG.recent_site_ids) = RECENT_CAPACITY
    /\ Head(APP_CONFIG.recent_site_ids) = "a"
    /\ "s11" \notin SeqToSet(APP_CONFIG.recent_site_ids)

\* switch_tab of a created tab returned Ok after a split layout
C28_WitnessTab ==
    /\ SwitchEnded("Ok")
    /\ task["w1"].arg = << NewTabId(1) >>
    /\ CURRENT_VIEW = "b"
    /\ "a" \in DOMAIN webviews
    /\ ~webviews["a"].shown

\* switch_tab of an id that names nothing returned the error
C28_WitnessNotFound ==
    /\ SwitchEnded("TabNotFound")
    /\ LAYOUT_STATE.mode = "Split"

InSplit(t) == t.cmd = "set_layout" /\ t.arg[1] = "split"

\* set_layout("split", ..) has not reached the block that writes LAYOUT_STATE
BeforeCommit(t) ==
    \/ t.pc \in {"sl_ratio", "sl_left_site", "sl_right_site"}
    \/ /\ t.ret \in {"split_left", "split_right"}
       /\ t.pc \in {"ens_bounds", "ens_exists", "ens_reuse", "ens_site", "ens_incr",
                    "ens_add_child", "ens_insert", "ens_guard_drop"}

\* C29: a step of set_layout("split", left, right) changes LAYOUT_STATE only by writing
\* Split with both slots and the clamped ratio, and only when both tabs resolve and both
\* are in CREATED_VIEWS with a host instance; a call that returns an error (a tab that
\* resolves to nothing gives the not-found error) returns before that write, so
\* LAYOUT_STATE is as it was when the call began; right after an Ok return of a call that
\* ran alone both tabs are in CREATED_VIEWS and fill the two slots.
C29_SplitCommit ==
    /\ []( ( /\ AllIdle
             /\ last_done = "w1"
             /\ InSplit(task["w1"])
             /\ task["w1"].result = "Ok" )
           => LET left == Unwrap(task["w1"].arg[3])
                  right == Unwrap(task["w1"].arg[4])
              IN  /\ {left, right} \subseteq CREATED_VIEWS
                  /\ {left, right} \subseteq DOMAIN webviews
                  /\ LAYOUT_STATE.mode = "Split"
                  /\ LAYOUT_STATE.left_tab_id = Some(left)
                  /\ LAYOUT_STATE.right_tab_id = Some(right) )
    /\ [][ LET t == task["w1"]
               u == task'["w1"]
           IN  /\ (InSplit(u) /\ LAYOUT_STATE' # LAYOUT_STATE)
                  => /\ t.pc = "sl_commit"
                     /\ IsSome(get_tab_site_id(APP_CONFIG, TAB_SITE_MAP, t.left))
                     /\ IsSome(get_tab_site_id(APP_CONFIG, TAB_SITE_MAP, t.right))
                     /\ {t.left, t.right} \subseteq CREATED_VIEWS
                     /\ {t.left, t.right} \subseteq DOMAIN webviews
                     /\ LAYOUT_STATE' = [mode |-> "Split", ratio |-> t.desired_ratio,
                                         left_tab_id |-> Some(t.left),
                                         right_tab_id |-> Some(t.right)]
               /\ (InSplit(t) /\ t.pc # "idle" /\ u.pc = "idle" /\ u.result # "Ok")
                  => /\ BeforeCommit(t)
                     /\ LAYOUT_STATE' = LAYOUT_STATE
               /\ ( /\ InSplit(t)
                    /\ \/ /\ t.pc = "sl_left_site"
                          /\ ~IsSome(get_tab_site_id(APP_CONFIG, TAB_SITE_MAP, t.left))
                       \/ /\ t.pc = "sl_right_site"
                          /\ ~IsSome(get_tab_site_id(APP_CONFIG, TAB_SITE_MAP, t.right)) )
                  => u.pc = "idle" /\ u.result = "TabNotFound"
         ]_vars

\* the host refused the right instance after the left one was created: the call returned
\* the error, the left tab has its record and the layout is still the single one
C29_Witness ==
    /\ AllIdle
    /\ last_done = "w1"
    /\ InSplit(task["w1"])
    /\ task["w1"].result = "CreationFailed"
    /\ "a" \in CREATED_VIEWS
    /\ "b" \notin CREATED_VIEWS
    /\ LAYOUT_STATE.mode = "Single"

\* the right tab resolves to nothing
C29_WitnessNotFound ==
    /\ AllIdle
    /\ last_done = "w1"
    /\ InSplit(task["w1"])
    /\ task["w1"].arg[4] = Some(GhostTab)
    /\ task["w1"].result = "TabNotFound"
    /\ CREATED_VIEWS = {}

\* the call returned Ok
C29_WitnessOk ==
    /\ AllIdle
    /\ last_done = "w1"
    /\ InSplit(task["w1"])
    /\ task["w1"].result = "Ok"
    /\ LAYOUT_STATE.mode = "Split"

\* the tabs the layout shows, for a Single layout and for a Split one with both slots set
VisibleSet ==
    IF LAYOUT_STATE.mode = "Single"
    THEN IF ACTIVE_TAB_ID # "" THEN {ACTIVE_TAB_ID}
         ELSE IF CURRENT_VIEW # "" THEN {CURRENT_VIEW} ELSE {}
    ELSE {Unwrap(LAYOUT_STATE.left_tab_id), Unwrap(LAYOUT_STATE.right_tab_id)}

GeometryOnlyCommands == {"set_sidebar_width", "on_window_resized"}

\* C30: the loop of resize_webviews_inner, run by a command that nothing interleaves, works
\* on the visible-set of the current state (Single: ACTIVE_TAB_ID, else CURRENT_VIEW when
\* it is empty; Split with both slots: left and right).  With apply_visibility, which every
\* caller but set_sidebar_width and the Resized handler passes, each instance with a record
\* is shown at its computed bounds when it is in that set and hidden, where it is,
\* otherwise; without it no instance changes between shown and hidden and only instances
\* of the set with a record move.  Instances without a record are left alone.
C30_Broadcast ==
    [][ \A p \in {"w1", MainThread} :
          rz_apply(p) =>
            LET visible == task[p].visible
                live == CREATED_VIEWS \cap DOMAIN webviews
            IN  /\ ( \/ LAYOUT_STATE.mode = "Single"
                     \/ IsSome(LAYOUT_STATE.left_tab_id) /\ IsSome(LAYOUT_STATE.right_tab_id) )
                   => DOMAIN visible = VisibleSet
                /\ task[p].apply_visibility <=> task[p].cmd \notin GeometryOnlyCommands
                /\ DOMAIN webviews' = DOMAIN webviews
                /\ \A t \in DOMAIN webviews \ CREATED_VIEWS : webviews'[t] = webviews[t]
                /\ task[p].apply_visibility
                   => \A t \in live :
                          IF t \in DOMAIN visible
                          THEN /\ webviews'[t].shown
                               /\ Geometry(webviews'[t]) = visible[t]
                          ELSE /\ ~webviews'[t].shown
                               /\ Geometry(webviews'[t]) = Geometry(webviews[t])
                /\ ~task[p].apply_visibility
                   => \A t \in live :
                          /\ webviews'[t].shown = webviews[t].shown
                          /\ IF t \in DOMAIN visible
                             THEN Geometry(webviews'[t]) = visible[t]
                             ELSE Geometry(webviews'[t]) = Geometry(webviews[t])
      ]_vars

\* set_layout("single") after a split with no active tab: the instance of CURRENT_VIEW is
\* shown, the other one is hidden
C30_Witness ==
    /\ AfterBroadcast
    /\ last_done = "w1"
    /\ task["w1"].cmd = "set_layout"
    /\ task["w1"].arg[1] = "single"
    /\ ACTIVE_TAB_ID = ""
    /\ CURRENT_VIEW = "a"
    /\ {"a", "b"} \subseteq CREATED_VIEWS
    /\ webviews["a"].shown
    /\ ~webviews["b"].shown

\* the window shrank under a single layout that followed a split: the shown instance got
\* the new bounds, the hidden one stayed hidden where it was
C30_WitnessGeometryOnly ==
    /\ AfterBroadcast
    /\ last_done = MainThread
    /\ task[MainThread].cmd = "on_window_resized"
    /\ window = [w |-> Px(150), h |-> Px(120)]
    /\ {"a", "b"} \subseteq CREATED_VIEWS
    /\ webviews["a"].shown /\ webviews["a"].w = Px(100)
    /\ ~webviews["b"].shown /\ webviews["b"].w # Px(100)

(***************************************************************************)
(* Properties of the instance cache, of teardown and of the view state      *)
(***************************************************************************)
\* C31: ensure_tab_webview that finds a record for its tab and no instance at the host
\* removes the record and goes on to create the instance; when the record and the
\* instance both exist it creates nothing, touches neither the records nor the counter
\* and gives the instance the content bounds, leaving shown as it is; when it returns Ok
\* to a caller that ran alone, the tab has its record and its instance.
C31_SelfHealing ==
    [][ LET t == task["w1"]
            u == task'["w1"]
        IN  /\ (t.pc = "ens_reuse" /\ t.tab_id \notin DOMAIN webviews)
               => /\ u.pc = "ens_drop_stale"
                  /\ webviews' = webviews
            /\ t.pc = "ens_drop_stale"
               => /\ t.tab_id \notin CREATED_VIEWS'
                  /\ u.pc = "ens_site"
                  /\ u.tab_id = t.tab_id
            /\ (t.pc = "ens_exists" /\ t.tab_id \notin CREATED_VIEWS) => u.pc = "ens_site"
            /\ (t.pc = "ens_reuse" /\ t.tab_id \in DOMAIN webviews)
               => /\ DOMAIN webviews' = DOMAIN webviews
                  /\ \A o \in DOMAIN webviews \ {t.tab_id} : webviews'[o] = webviews[o]
                  /\ Geometry(webviews'[t.tab_id]) = t.bounds
                  /\ webviews'[t.tab_id].shown = webviews[t.tab_id].shown
                  /\ CREATED_VIEWS' = CREATED_VIEWS
                  /\ WEBVIEW_CREATE_IN_PROGRESS' = WEBVIEW_CREATE_IN_PROGRESS
                  /\ u.pc \notin {"ens_drop_stale", "ens_site", "idle"}
            /\ ( \/ t.pc = "ens_reuse" /\ u.pc # "ens_drop_stale"
                 \/ t.pc = "ens_guard_drop" /\ t.err = "" )
               => /\ t.tab_id \in CREATED_VIEWS'
                  /\ t.tab_id \in DOMAIN webviews'
      ]_vars

\* switch_view("a") returned Ok from a state where "a" had a record and no instance
C31_Witness ==
    /\ AllIdle
    /\ calls = 1
    /\ task["w1"].cmd = "switch_view"
    /\ task["w1"].arg = << "a" >>
    /\ task["w1"].result = "Ok"
    /\ "a" \in CREATED_VIEWS
    /\ "a" \in DOMAIN webviews
    /\ "b" \in CREATED_VIEWS
    /\ "b" \notin DOMAIN webviews

\* the record and the instance exist and ensure_tab_webview is about to reposition
C31_WitnessReuse ==
    /\ task["w1"].pc = "ens_reuse"
    /\ task["w1"].tab_id \in DOMAIN webviews
    /\ webviews[task["w1"].tab_id].w # task["w1"].bounds.w

\* the main tab of a site and the auxiliary tabs mapped to it
TabsOfSite(map, site_id) == {site_id} \cup {t \in DOMAIN map : map[t] = site_id}

\* C32: the list a teardown works on holds the main tab id of the site and the auxiliary
\* tabs mapped to it at that moment, and nothing else; each turn of the loop leaves its tab
\* without record, instance and map entry; when the loop of a cache clear, of a URL edit
\* that changed the URL or of a site removal is through, neither the main tab nor any
\* auxiliary tab without a map entry has a record or an instance, and no map entry names
\* the site, so once remove_site has returned Ok no entry points at the removed site.
C32_Teardown ==
    [][ LET t == task[MainThread]
            u == task'[MainThread]
        IN  /\ (u.cmd \in TeardownCommands /\ t.pc # "td_close" /\ u.pc = "td_close")
               => SeqToSet(u.todo) = TabsOfSite(TAB_SITE_MAP, u.site_id)
            /\ (t.pc = "td_close" /\ t.todo # << >>)
               => /\ Head(t.todo) \notin CREATED_VIEWS'
                  /\ Head(t.todo) \notin DOMAIN webviews'
                  /\ Head(t.todo) \notin DOMAIN TAB_SITE_MAP'
            /\ (t.pc = "td_close" /\ t.todo = << >>)
               => /\ t.site_id \notin CREATED_VIEWS
                  /\ t.site_id \notin DOMAIN webviews
                  /\ \A tab_id \in DOMAIN TAB_SITE_MAP : TAB_SITE_MAP[tab_id] # t.site_id
                  /\ \A tab_id \in AuxIds \ DOMAIN TAB_SITE_MAP :
                         /\ tab_id \notin CREATED_VIEWS
                         /\ tab_id \notin DOMAIN webviews
            /\ ( /\ t.cmd \in TeardownCommands /\ t.pc # "idle"
                 /\ u.pc = "idle" /\ u.result = "Ok" )
               => /\ t.site_id \notin CREATED_VIEWS'
                  /\ t.site_id \notin DOMAIN webviews'
                  /\ \A tab_id \in DOMAIN TAB_SITE_MAP' : TAB_SITE_MAP'[tab_id] # t.site_id
      ]_vars

\* remove_site of the custom site returned Ok after its main tab and an auxiliary tab had
\* instances side by side: nothing of the two is left, the other site's tab keeps its entry
C32_Witness ==
    /\ AllIdle
    /\ task[MainThread].cmd = "remove_site"
    /\ task[MainThread].result = "Ok"
    /\ last_done = MainThread
    /\ task["w1"].cmd = "set_layout"
    /\ task["w1"].result = "Ok"
    /\ task["w1"].arg[3] = Some(CustomSite)
    /\ uuids.tabs = 2
    /\ NewTabId(1) \notin DOMAIN TAB_SITE_MAP
    /\ DOMAIN TAB_SITE_MAP = {NewTabId(2)}
    /\ CREATED_VIEWS = {}
    /\ webviews = EmptyMap

\* C33: whenever no summarize_active_tab call is past the gate, PENDING_EXTRACTS is empty.
C33_TableEmptyWhenIdle ==
    PastGate(task) = {} => PENDING_EXTRACTS = EmptyMap

\* C34: once every command has returned, each instance the host has belongs to a tab
\* with a record in CREATED_VIEWS.
C34_NoOrphanInstance ==
    AllIdle => DOMAIN webviews \subseteq CREATED_VIEWS

\* C35: of two ensure_tab_webview calls for the same tab that run at the same time with no
\* record for it, at most one gets as far as add_child: no call is about to ask the host
\* for an instance another call has created or is creating, so none fails on the label
\* the other one took.
C35_OneCreationPerTab ==
    \A p \in Workers :
        task[p].pc = "ens_add_child"
        => /\ task[p].tab_id \notin DOMAIN webviews
           /\ \A q \in Workers \ {p} :
                  ~( /\ task[q].pc = "ens_add_child"
                     /\ task[q].tab_id = task[p].tab_id )

\* C36: a switch_tab or switch_view call that fails after its tab resolved, on a URL that
\* does not parse or on a host that refuses the instance, leaves LAYOUT_STATE,
\* ACTIVE_TAB_ID and CURRENT_VIEW as they were before the call; stated for the first
\* command of a run, whose state before the call is the one after construction.
C36_FailedSwitchKeepsViewState ==
    ( /\ AllIdle
      /\ calls = 1
      /\ task["w1"].cmd \in {"switch_tab", "switch_view"}
      /\ task["w1"].result \in {"UrlParseFailed", "CreationFailed"} )
    => /\ LAYOUT_STATE = DefaultLayout
       /\ ACTIVE_TAB_ID = ""
       /\ CURRENT_VIEW = ""

\* C37: once every command has returned, a Split layout with both slots filled names two
\* tabs that each resolve to a site of the registry and each have a record in
\* CREATED_VIEWS: clear_view_cache, remove_site and update_site leave no slot on a tab
\* they tore down.
C37_SplitSlotsLive ==
    ( /\ AllIdle
      /\ LAYOUT_STATE.mode = "Split"
      /\ IsSome(LAYOUT_STATE.left_tab_id)
      /\ IsSome(LAYOUT_STATE.right_tab_id) )
    => \A slot \in {LAYOUT_STATE.left_tab_id, LAYOUT_STATE.right_tab_id} :
           /\ IsSome(get_tab_site_id(APP_CONFIG, TAB_SITE_MAP, Unwrap(slot)))
           /\ Unwrap(slot) \in CREATED_VIEWS

\* C38: once every command has returned, ACTIVE_TAB_ID is empty or names a tab that
\* resolves, the id of a site of the registry or an auxiliary tab with a TAB_SITE_MAP
\* entry: never a closed tab nor an id that was never created.
C38_ActiveTabResolves ==
    AllIdle => \/ ACTIVE_TAB_ID = ""
               \/ IsSome(get_tab_site_id(APP_CONFIG, TAB_SITE_MAP, ACTIVE_TAB_ID))

\* C39: once every command has returned, every TAB_SITE_MAP entry maps its auxiliary tab
\* to a site of the registry, however create_tab and remove_site follow each other.
C39_AuxTabsHaveSites ==
    AllIdle => \A tab_id \in DOMAIN TAB_SITE_MAP :
                   TAB_SITE_MAP[tab_id] \in SiteIdsOf(APP_CONFIG)

\* the tabs whose instance the host shows
ShownTabs == {tab_id \in DOMAIN webviews : webviews[tab_id].shown}

\* C40: with a Single layout, once every command has returned, at most one instance is
\* shown and it is the one of ACTIVE_TAB_ID, or of CURRENT_VIEW when ACTIVE_TAB_ID is
\* empty: neither summarize_active_tab creating the instance of its target nor
\* set_active_tab_id leaves a second instance shown.
C40_SingleShowsOne ==
    (AllIdle /\ LAYOUT_STATE.mode = "Single")
    => /\ Cardinality(ShownTabs) <= 1
       /\ ShownTabs \subseteq VisibleSet

====
